---- MODULE Spec2Model ----
(***************************************************************************)
(* Engagement scoring and prize distribution engine of unic-backend:      *)
(* gift pool ledger (GiftPoolService), scoring and boosts (PointsService),*)
(* contest scheduler (SchedulerService) and prize distribution            *)
(* (PrizeService), modelled over a store with per-document atomic updates.*)
(***************************************************************************)
EXTENDS Integers, Sequences, FiniteSets, TLC

\* ------------------------------------------------------------------------
\* Bounds
\* ------------------------------------------------------------------------
MaxTotal == 2
MaxQty == 2
MaxPoolCalls == 4

GiftIds == {"delicious_cake"}
PoolCallers == {"c1", "c2"}
Quantities == 0..MaxQty

MaxTime == 2
MaxActCalls == 2
EventEnd == 2
MaxPoints == 2
MaxLimit == 3
MaxOffset == 2
MaxWinners == 2
MaxTicks == 2
MaxActivations == 2
MaxAttempts == 3
MaxPrizeCalls == 2
MaxPrizeTime == 1

Users == {1, 2, 3}
Events == {"e1", "e2"}
\* the participant whose PointsService calls are followed, and the contest
\* that is running while they are made
Scorers == {1}
RunningEvents == {"e1"}
ActCallers == {"a1", "a2"}
TickProcs == {"tick"}
AdminProcs == {"admin"}
OwnerProcs == {"owner"}
DrawProcs == {"draw"}
SchedProcs == TickProcs \cup AdminProcs \cup OwnerProcs \cup DrawProcs
Entrants == {11, 12, 13, 14}
PrizeCallers == {"z1", "z2"}

VARIABLES
  giftPool,      \* GiftPool collection: giftId -> document
  poolPc,        \* position of each GiftPoolService caller
  poolArg,       \* arguments (and transaction state) of the call in flight
  poolRet,       \* outcome of each caller's last finished call
  poolStart,     \* the pool as it was at the start (history)
  poolHist       \* per gift: counts of finished calls (history)

VARIABLES
  now,           \* wall clock (new Date()), in units of 24 hours
  events,        \* Event collection: eventId -> document
  stats,         \* UserEventStats collection: userId -> eventId -> document
  boosts,        \* Boost collection, in insertion order
  actPc,         \* position of each PointsService caller
  actLoc,        \* local variables of the PointsService call in flight
  actRet,        \* outcome of each caller's last finished call
  accepted,      \* per (user, event): points returned by accepted scoring calls (history)
  actCalls       \* number of PointsService calls started (history)

VARIABLES
  lbArgs,        \* arguments of the last calculateLeaderboard call
  leaderboard    \* its result

VARIABLES
  schPc,         \* position of each SchedulerService run (timer tick, admin route)
  schLoc,        \* its local variables
  ticks,         \* number of processEvents runs started (history)
  completions,   \* per event: the runs that persisted its completion, with the
                 \* number of ticks started by then (history)
  activations,   \* number of activate requests started (history)
  sendLog,       \* per event: the sendGift calls made for it, in order (history)
  distributions, \* PrizeDistribution collection, in insertion order
  przPc,         \* position of each PrizeService caller
  przLoc,        \* local variables of the PrizeService call in flight
  przRet,        \* outcome of each caller's last finished call
  przCalls,      \* number of PrizeService calls started (history)
  przSends       \* GiftsService.sendGift calls made by PrizeService: per (contest,
                 \* winner, position) those that succeeded and failed, and per
                 \* gift the successful ones of the pool branch (history)

VARIABLES
  scEntries,     \* SecondChanceEntry collection: eventId -> userId -> state
  scTimers,      \* per event: pending setTimeout callbacks of the second-chance draw
  scLog          \* per event: the timers set and the draws that appended winners (history)

VARIABLES
  intervalId,    \* SchedulerService.intervalId: the stored timer handle, or NoTimeout
  timers,        \* the active setInterval timers of the process: handle and callback
  handles,       \* number of timer handles handed out so far
  timerRuns,     \* per periodic function: number of times it was invoked (history)
  lastCall       \* the last of start() / stop() that returned (history)

poolVars == <<giftPool, poolPc, poolArg, poolRet, poolStart, poolHist>>
pointsVars == <<now, events, stats, boosts, actPc, actLoc, actRet, accepted, actCalls>>

rankVars == <<lbArgs, leaderboard>>
schedVars == <<schPc, schLoc, ticks, completions, sendLog, activations>>
prizeVars == <<distributions, przPc, przLoc, przRet, przCalls, przSends>>
chanceVars == <<scEntries, scTimers, scLog>>
timerVars == <<intervalId, timers, handles, timerRuns, lastCall>>
nonPoolVars == <<pointsVars, rankVars, schedVars, prizeVars, chanceVars, timerVars>>
nonPointsVars == <<poolVars, rankVars, schedVars, prizeVars, chanceVars, timerVars>>
nonRankVars == <<poolVars, pointsVars, schedVars, prizeVars, chanceVars, timerVars>>
\* what PrizeService leaves alone: it reads events and writes the pool entry
nonPrizeVars == <<pointsVars, rankVars, schedVars, chanceVars, timerVars,
                  poolPc, poolArg, poolRet, poolStart, poolHist>>
\* what the second-chance draw leaves alone: it writes events and entries
nonDrawVars == <<poolVars, rankVars, prizeVars, timerVars, now, stats, boosts, actPc,
                 actLoc, actRet, accepted, actCalls>>
\* what start() and stop() leave alone: they only handle the timers
nonTimerVars == <<poolVars, pointsVars, rankVars, schedVars, prizeVars, chanceVars>>
\* what SchedulerService leaves alone: it reads stats and writes events
nonSchedVars == <<nonDrawVars, chanceVars>>

vars == <<giftPool, poolPc, poolArg, poolRet, poolStart, poolHist,
          now, events, stats, boosts, actPc, actLoc, actRet, accepted, actCalls,
          lbArgs, leaderboard,
          schPc, schLoc, ticks, completions, sendLog, activations,
          distributions, przPc, przLoc, przRet, przCalls, przSends,
          scEntries, scTimers, scLog,
          intervalId, timers, handles, timerRuns, lastCall>>
\* ------------------------------------------------------------------------
\* Gift pool ledger (GiftPoolService, models/GiftPool.ts)
\* ------------------------------------------------------------------------
NoGiftDoc == [exists |-> FALSE, totalAvailable |-> 0, reserved |-> 0, used |-> 0]

\* GiftPoolSchema.pre('save'): the state a saved document must satisfy
GiftPoolValid(d) ==
  /\ ~(d.reserved + d.used > d.totalAvailable)
  /\ ~(d.reserved < 0 \/ d.used < 0)

\* documents a fresh database may hold: absent, or validated by the schema
GiftPoolDocs ==
  {NoGiftDoc} \cup
  {d \in [exists : {TRUE}, totalAvailable : 0..MaxTotal,
          reserved : 0..MaxTotal, used : 0..MaxTotal] : GiftPoolValid(d)}

checkAvailability(g) ==
  IF ~giftPool[g].exists THEN 0
  ELSE giftPool[g].totalAvailable - giftPool[g].reserved - giftPool[g].used

NoPoolArg == [giftId |-> "delicious_cake", quantity |-> 0, conflict |-> FALSE]

NoPoolHist == [reserveTrue |-> 0, reserveFalse |-> 0, other |-> 0]

PoolCallsMade ==
  LET RECURSIVE Sum(_)
      Sum(S) == IF S = {} THEN 0
                ELSE LET g == CHOOSE x \in S : TRUE
                     IN poolHist[g].reserveTrue + poolHist[g].reserveFalse
                        + poolHist[g].other + Sum(S \ {g})
  IN Sum(GiftIds)

\* a committed write to entry g aborts every open transaction that read it
PoolWrite(c, g, doc) ==
  /\ giftPool' = [giftPool EXCEPT ![g] = doc]
  /\ poolArg' = [x \in PoolCallers |->
                   IF x # c /\ poolPc[x] = "markAsUsed_update" /\ poolArg[x].giftId = g
                   THEN [poolArg[x] EXCEPT !.conflict = TRUE]
                   ELSE IF x = c THEN NoPoolArg ELSE poolArg[x]]

PoolFinish(c, ret) ==
  /\ poolPc' = [poolPc EXCEPT ![c] = "idle"]
  /\ poolRet' = [poolRet EXCEPT ![c] = ret]

PoolCount(g, field) ==
  poolHist' = [poolHist EXCEPT ![g][field] = @ + 1]

PoolStartCall(c) ==
  /\ poolPc[c] = "idle"
  /\ PoolCallsMade < MaxPoolCalls

\* GiftPoolService.syncGiftsFromTelegram: upsert with $setOnInsert
syncGiftsFromTelegram ==
  /\ \E g \in GiftIds : ~giftPool[g].exists
  /\ giftPool' = [g \in GiftIds |->
                    IF giftPool[g].exists THEN giftPool[g]
                    ELSE [exists |-> TRUE, totalAvailable |-> 0, reserved |-> 0, used |-> 0]]
  /\ UNCHANGED <<poolPc, poolArg, poolRet, poolStart, poolHist>>
  /\ UNCHANGED nonPoolVars

\* GiftPoolService.addToPool: one findOneAndUpdate with $inc
addToPool(c, g, q) ==
  /\ PoolStartCall(c)
  /\ giftPool[g].totalAvailable + q <= MaxTotal
  /\ PoolCount(g, "other")
  /\ IF q <= 0 \/ ~giftPool[g].exists
     THEN /\ PoolFinish(c, "error")
          /\ UNCHANGED <<giftPool, poolArg>>
     ELSE /\ PoolWrite(c, g, [giftPool[g] EXCEPT !.totalAvailable = @ + q])
          /\ PoolFinish(c, "ok")
  /\ UNCHANGED <<poolStart, nonPoolVars>>

\* mutant: the filter forgets the units already used
ReserveMatchesIgnoringUsed(g, q) ==
  /\ giftPool[g].exists
  /\ giftPool[g].totalAvailable - giftPool[g].reserved >= q

\* mutant: the filter compares with > quantity - 1 - 1, one unit too generous
ReserveMatchesOffByOne(g, q) ==
  /\ giftPool[g].exists
  /\ (giftPool[g].totalAvailable - giftPool[g].reserved) - giftPool[g].used >= q - 1

\* the filter of reserveGift's findOneAndUpdate
ReserveMatches(g, q) ==
  /\ giftPool[g].exists
  /\ (giftPool[g].totalAvailable - giftPool[g].reserved) - giftPool[g].used >= q

\* GiftPoolService.reserveGift: conditional findOneAndUpdate, one document operation
reserveGift(c, g, q) ==
  /\ PoolStartCall(c)
  /\ IF q <= 0
     THEN /\ PoolFinish(c, "error")
          /\ PoolCount(g, "other")
          /\ UNCHANGED <<giftPool, poolArg>>
     ELSE IF ReserveMatches(g, q)
     THEN /\ PoolWrite(c, g, [giftPool[g] EXCEPT !.reserved = @ + q])
          /\ PoolFinish(c, "true")
          /\ PoolCount(g, IF q = 1 THEN "reserveTrue" ELSE "other")
     ELSE /\ PoolFinish(c, "false")
          /\ PoolCount(g, IF q = 1 THEN "reserveFalse" ELSE "other")
          /\ UNCHANGED <<giftPool, poolArg>>
  /\ UNCHANGED <<poolStart, nonPoolVars>>

\* GiftPoolService.releaseGift, up to and including the findOne and its checks
releaseGift(c, g, q) ==
  /\ PoolStartCall(c)
  /\ PoolCount(g, "other")
  /\ IF q <= 0 \/ ~giftPool[g].exists \/ giftPool[g].reserved < q
     THEN /\ PoolFinish(c, "error")
          /\ UNCHANGED poolArg
     ELSE /\ poolPc' = [poolPc EXCEPT ![c] = "releaseGift_update"]
          /\ poolArg' = [poolArg EXCEPT ![c] = [giftId |-> g, quantity |-> q, conflict |-> FALSE]]
          /\ UNCHANGED poolRet
  /\ UNCHANGED <<giftPool, poolStart, nonPoolVars>>

\* GiftPoolService.releaseGift: the unconditional $inc that follows the check
releaseGiftUpdate(c) ==
  /\ poolPc[c] = "releaseGift_update"
  /\ LET g == poolArg[c].giftId
         q == poolArg[c].quantity
     IN IF giftPool[g].exists
        THEN PoolWrite(c, g, [giftPool[g] EXCEPT !.reserved = @ - q])
        ELSE /\ UNCHANGED giftPool
             /\ poolArg' = [poolArg EXCEPT ![c] = NoPoolArg]
  /\ PoolFinish(c, "ok")
  /\ UNCHANGED <<poolStart, poolHist, nonPoolVars>>

\* GiftPoolService.markAsUsed: start of the transaction, findOne in the session
markAsUsed(c, g, q) ==
  /\ PoolStartCall(c)
  /\ PoolCount(g, "other")
  /\ IF q <= 0 \/ ~giftPool[g].exists \/ giftPool[g].reserved < q
     THEN /\ PoolFinish(c, "error")
          /\ UNCHANGED poolArg
     ELSE /\ poolPc' = [poolPc EXCEPT ![c] = "markAsUsed_update"]
          /\ poolArg' = [poolArg EXCEPT ![c] = [giftId |-> g, quantity |-> q, conflict |-> FALSE]]
          /\ UNCHANGED poolRet
  /\ UNCHANGED <<giftPool, poolStart, nonPoolVars>>

\* GiftPoolService.markAsUsed: $inc of both counters and commit; a document
\* written since the transaction's read makes the store abort it
markAsUsedUpdate(c) ==
  /\ poolPc[c] = "markAsUsed_update"
  /\ LET g == poolArg[c].giftId
         q == poolArg[c].quantity
     IN IF poolArg[c].conflict
        THEN /\ PoolFinish(c, "error")
             /\ poolArg' = [poolArg EXCEPT ![c] = NoPoolArg]
             /\ UNCHANGED giftPool
        ELSE /\ PoolWrite(c, g, [giftPool[g] EXCEPT !.reserved = @ - q, !.used = @ + q])
             /\ PoolFinish(c, "ok")
  /\ UNCHANGED <<poolStart, poolHist, nonPoolVars>>

\* ------------------------------------------------------------------------
\* Scoring and boosts (PointsService, models/UserEventStats.ts, models/Boost.ts)
\* ------------------------------------------------------------------------
REACTION_POINTS == 1

COMMENT_POINTS == 3

REPLY_POINTS == 2

\* multipliers are kept in tenths: 1.0, 1.5 and 2.0
MULT_NONE == 10

MULT_X15 == 15

MULT_X2 == 20

\* 24 * 60 * 60 * 1000 ms, one unit of the clock
BOOST_24H == 1

NoDate == 0 - 1

BoostTypes == {"x2_24h", "x1.5_forever"}

ActivityTypes == {"reactions", "comments", "all"}

ActionKinds == {"reaction", "comment", "reply"}

\* mutant: Math.floor in place of Math.round
Round10Floor(x) == x \div 10

\* Math.round(basePoints * multiplier), round half up
Round10(x) == (x + 5) \div 10

basePoints(kind) ==
  IF kind = "reaction" THEN REACTION_POINTS
  ELSE IF kind = "reply" THEN REPLY_POINTS ELSE COMMENT_POINTS

earnedPoints(kind, multiplier) == Round10(basePoints(kind) * multiplier)

NoStatsDoc ==
  [exists |-> FALSE, points |-> 0, reactionsCount |-> 0, commentsCount |-> 0,
   repliesCount |-> 0, boostMultiplier |-> MULT_NONE, boostExpiresAt |-> NoDate,
   lastActivityAt |-> NoDate]

\* new UserEventStats({...}) in handleReaction / handleComment, and the schema defaults
NewStatsDoc(t) ==
  [exists |-> TRUE, points |-> 0, reactionsCount |-> 0, commentsCount |-> 0,
   repliesCount |-> 0, boostMultiplier |-> MULT_NONE, boostExpiresAt |-> NoDate,
   lastActivityAt |-> t]

NoActLoc ==
  [op |-> "none", userId |-> 0, eventId |-> "none", kind |-> "none", isNew |-> FALSE,
   doc |-> NoStatsDoc, boostIdx |-> 0, multiplier |-> MULT_NONE, earned |-> 0,
   boostType |-> "none", expiresAt |-> NoDate, activatedAt |-> NoDate]

\* mutant: the filter leaves out endsAt
EventAcceptingStatusOnly(e) ==
  events[e].status = "active"

\* the filter { _id, status: 'active', endsAt: { $gt: new Date() } }
EventAccepting(e) ==
  /\ events[e].status = "active"
  /\ events[e].endsAt > now

\* mutant: every kind counts in every contest
KindCountedAlways(e, kind) == TRUE

\* activityType gate of handleReaction (line 29) and handleComment (line 93)
KindCounted(e, kind) ==
  IF kind = "reaction"
  THEN events[e].activityType = "reactions" \/ events[e].activityType = "all"
  ELSE events[e].activityType = "comments" \/ events[e].activityType = "all"

\* mutant: the lookup only sees boosts that carry an expiry
ExistingBoostsWithExpiry(u, e) ==
  {i \in 1..Len(boosts) :
     /\ boosts[i].userId = u /\ boosts[i].eventId = e /\ boosts[i].isActive
     /\ boosts[i].expiresAt # NoDate}

\* Boost.findOne({ userId, eventId, isActive: true }) of applyBoost
ExistingBoosts(u, e) ==
  {i \in 1..Len(boosts) :
     boosts[i].userId = u /\ boosts[i].eventId = e /\ boosts[i].isActive}

\* the query of getActiveBoost: isActive and (no expiresAt or expiresAt > now)
ActiveBoostMatches(u, e) ==
  {i \in ExistingBoosts(u, e) :
     boosts[i].expiresAt = NoDate \/ boosts[i].expiresAt > now}

ActFinish(c, ret) ==
  /\ actPc' = [actPc EXCEPT ![c] = "idle"]
  /\ actLoc' = [actLoc EXCEPT ![c] = NoActLoc]
  /\ actRet' = [actRet EXCEPT ![c] = ret]

ActStartCall(c) ==
  /\ actPc[c] = "idle"
  /\ actCalls < MaxActCalls
  /\ actCalls' = actCalls + 1

\* the clock advances between any two steps
ClockTick ==
  /\ now < MaxTime
  /\ now' = now + 1
  /\ UNCHANGED <<events, stats, boosts, actPc, actLoc, actRet, accepted, actCalls>>
  /\ UNCHANGED nonPointsVars

\* handleReaction / handleComment, lines 18-31 and 82-95: Event.findOne, the
\* throw when nothing matches and the return 0 for a kind that is not counted
ScoreEnter(c, u, e, kind) ==
  /\ ActStartCall(c)
  /\ IF ~EventAccepting(e)
     THEN ActFinish(c, "EventNotActive")
     ELSE IF ~KindCounted(e, kind)
     THEN ActFinish(c, "zero")
     ELSE /\ actPc' = [actPc EXCEPT ![c] = "stats_findOne"]
          /\ actLoc' = [actLoc EXCEPT ![c] =
                          [NoActLoc EXCEPT !.op = "score", !.userId = u,
                                           !.eventId = e, !.kind = kind]]
          /\ UNCHANGED actRet
  /\ UNCHANGED <<now, events, stats, boosts, accepted>>
  /\ UNCHANGED nonPointsVars

handleReaction(c, u, e) == ScoreEnter(c, u, e, "reaction")

handleComment(c, u, e, isReply) ==
  ScoreEnter(c, u, e, IF isReply THEN "reply" ELSE "comment")

\* lines 34-47 and 98-111: UserEventStats.findOne, or a new document
statsFindOne(c) ==
  /\ actPc[c] = "stats_findOne"
  /\ LET u == actLoc[c].userId
         e == actLoc[c].eventId
     IN actLoc' = [actLoc EXCEPT ![c] =
                     IF stats[u][e].exists
                     THEN [@ EXCEPT !.isNew = FALSE, !.doc = stats[u][e]]
                     ELSE [@ EXCEPT !.isNew = TRUE, !.doc = NewStatsDoc(now)]]
  /\ actPc' = [actPc EXCEPT ![c] = "getActiveBoost"]
  /\ UNCHANGED <<now, events, stats, boosts, actRet, accepted, actCalls>>
  /\ UNCHANGED nonPointsVars

\* getActiveBoost, lines 202-212: the Boost.findOne; with several matches the
\* store returns any one of them
getActiveBoost(c) ==
  /\ actPc[c] = "getActiveBoost"
  /\ LET m == ActiveBoostMatches(actLoc[c].userId, actLoc[c].eventId)
     IN IF m = {}
        THEN actLoc' = [actLoc EXCEPT ![c].boostIdx = 0]
        ELSE \E i \in m : actLoc' = [actLoc EXCEPT ![c].boostIdx = i]
  /\ actPc' = [actPc EXCEPT ![c] = "boost_checked"]
  /\ UNCHANGED <<now, events, stats, boosts, actRet, accepted, actCalls>>
  /\ UNCHANGED nonPointsVars

\* getActiveBoost, lines 214-221, and the caller's lines 51-61 / 115-129:
\* deactivate a boost found past its expiry, pick the multiplier, compute the
\* earned points and stamp lastActivityAt
boostChecked(c) ==
  /\ actPc[c] = "boost_checked"
  /\ LET i == actLoc[c].boostIdx
         expired == i # 0 /\ boosts[i].expiresAt # NoDate /\ boosts[i].expiresAt < now
         mult == IF i = 0 \/ expired THEN MULT_NONE ELSE boosts[i].multiplier
     IN /\ boosts' = IF expired THEN [boosts EXCEPT ![i].isActive = FALSE] ELSE boosts
        /\ actLoc' = [actLoc EXCEPT ![c].multiplier = mult,
                                    ![c].earned = earnedPoints(actLoc[c].kind, mult),
                                    ![c].activatedAt = now]
  /\ actPc' = [actPc EXCEPT ![c] = "stats_save"]
  /\ UNCHANGED <<now, events, stats, actRet, accepted, actCalls>>
  /\ UNCHANGED nonPointsVars

\* the document the call holds in memory after lines 58-61 / 122-129
ScoredDoc(loc) ==
  [loc.doc EXCEPT
     !.points = @ + loc.earned,
     !.reactionsCount = IF loc.kind = "reaction" THEN @ + 1 ELSE @,
     !.commentsCount = IF loc.kind = "comment" THEN @ + 1 ELSE @,
     !.repliesCount = IF loc.kind = "reply" THEN @ + 1 ELSE @,
     !.boostMultiplier = loc.multiplier,
     !.lastActivityAt = loc.activatedAt]

\* stats.save() of a loaded document: $set of the paths the call modified
SavedOver(db, loc) ==
  LET d == ScoredDoc(loc)
  IN [db EXCEPT
        !.points = d.points,
        !.reactionsCount = IF loc.kind = "reaction" THEN d.reactionsCount ELSE @,
        !.commentsCount = IF loc.kind = "comment" THEN d.commentsCount ELSE @,
        !.repliesCount = IF loc.kind = "reply" THEN d.repliesCount ELSE @,
        !.boostMultiplier = IF d.boostMultiplier # loc.doc.boostMultiplier
                            THEN d.boostMultiplier ELSE @,
        !.lastActivityAt = IF d.lastActivityAt # loc.doc.lastActivityAt
                           THEN d.lastActivityAt ELSE @]

\* stats.save(), lines 63 and 131: insert of a new document (rejected by the
\* unique index on (userId, eventId) if one exists by now) or update
statsSave(c) ==
  /\ actPc[c] = "stats_save"
  /\ LET u == actLoc[c].userId
         e == actLoc[c].eventId
     IN IF actLoc[c].isNew /\ stats[u][e].exists
        THEN /\ ActFinish(c, "DuplicateKey")
             /\ UNCHANGED stats
        ELSE /\ stats' = [stats EXCEPT ![u][e] =
                            IF actLoc[c].isNew THEN ScoredDoc(actLoc[c])
                            ELSE SavedOver(stats[u][e], actLoc[c])]
             /\ actPc' = [actPc EXCEPT ![c] = "event_inc"]
             /\ UNCHANGED <<actLoc, actRet>>
  /\ UNCHANGED <<now, events, boosts, accepted, actCalls>>
  /\ UNCHANGED nonPointsVars

\* Event.findByIdAndUpdate $inc, lines 66-70 and 134-138, and the return
eventInc(c) ==
  /\ actPc[c] = "event_inc"
  /\ LET u == actLoc[c].userId
         e == actLoc[c].eventId
     IN /\ events' = [events EXCEPT
                        ![e].totalReactions = IF actLoc[c].kind = "reaction" THEN @ + 1 ELSE @,
                        ![e].totalComments = IF actLoc[c].kind = "reaction" THEN @ ELSE @ + 1]
        /\ accepted' = [accepted EXCEPT ![u][e] = @ + actLoc[c].earned]
  /\ ActFinish(c, "points")
  /\ UNCHANGED <<now, stats, boosts, actCalls>>
  /\ UNCHANGED nonPointsVars

boostMultiplier(boostType) == IF boostType = "x2_24h" THEN MULT_X2 ELSE MULT_X15

\* applyBoost, lines 150-183: the isActive lookup, the throw, and the new
\* Boost document built in memory
applyBoost(c, u, e, boostType) ==
  /\ ActStartCall(c)
  /\ IF ExistingBoosts(u, e) # {}
     THEN ActFinish(c, "BoostAlreadyActive")
     ELSE /\ actPc' = [actPc EXCEPT ![c] = "boost_save"]
          /\ actLoc' = [actLoc EXCEPT ![c] =
                          [NoActLoc EXCEPT
                             !.op = "boost", !.userId = u, !.eventId = e,
                             !.boostType = boostType,
                             !.multiplier = boostMultiplier(boostType),
                             !.expiresAt = IF boostType = "x2_24h"
                                           THEN now + BOOST_24H ELSE NoDate,
                             !.activatedAt = now]]
          /\ UNCHANGED actRet
  /\ UNCHANGED <<now, events, stats, boosts, accepted>>
  /\ UNCHANGED nonPointsVars

\* boost.save(), line 185
boostSave(c) ==
  /\ actPc[c] = "boost_save"
  /\ boosts' = Append(boosts,
                 [userId |-> actLoc[c].userId, eventId |-> actLoc[c].eventId,
                  type |-> actLoc[c].boostType, multiplier |-> actLoc[c].multiplier,
                  expiresAt |-> actLoc[c].expiresAt, isActive |-> TRUE])
  /\ actPc' = [actPc EXCEPT ![c] = "boost_stats"]
  /\ UNCHANGED <<now, events, stats, actLoc, actRet, accepted, actCalls>>
  /\ UNCHANGED nonPointsVars

\* UserEventStats.findOneAndUpdate with upsert, lines 188-192
boostStats(c) ==
  /\ actPc[c] = "boost_stats"
  /\ LET u == actLoc[c].userId
         e == actLoc[c].eventId
         base == IF stats[u][e].exists THEN stats[u][e] ELSE NewStatsDoc(now)
     IN stats' = [stats EXCEPT ![u][e] =
                    [base EXCEPT !.boostMultiplier = actLoc[c].multiplier,
                                 !.boostExpiresAt = actLoc[c].expiresAt]]
  /\ ActFinish(c, "ok")
  /\ UNCHANGED <<now, events, boosts, accepted, actCalls>>
  /\ UNCHANGED nonPointsVars

\* prizes[i] is the prize of position i
TelegramGift(g) == [type |-> "telegram_gift", giftId |-> g, source |-> "pool"]

PrizeList(n) ==
  [i \in 1..n |-> IF i = 1 THEN TelegramGift("green_star") ELSE TelegramGift("delicious_cake")]

NoEventDoc ==
  [status |-> "draft", startsAt |-> NoDate, endsAt |-> NoDate, activityType |-> "all",
   totalReactions |-> 0, totalComments |-> 0,
   winnersCount |-> 1, prizes |-> PrizeList(1), winners |-> <<>>]

\* ------------------------------------------------------------------------
\* Leaderboard (PointsService.calculateLeaderboard)
\* ------------------------------------------------------------------------
Min(a, b) == IF a < b THEN a ELSE b

Max(a, b) == IF a > b THEN a ELSE b

\* { $match: { eventId } }
Participants(e) == {u \in Users : stats[u][e].exists}

\* mutant: ties on points are broken by the later lastActivityAt
SortsBeforeLatestFirst(e, a, b) ==
  \/ stats[a][e].points > stats[b][e].points
  \/ /\ stats[a][e].points = stats[b][e].points
     /\ stats[a][e].lastActivityAt > stats[b][e].lastActivityAt

\* { $sort: { points: -1, lastActivityAt: 1 } }: a comes strictly before b
SortsBefore(e, a, b) ==
  \/ stats[a][e].points > stats[b][e].points
  \/ /\ stats[a][e].points = stats[b][e].points
     /\ stats[a][e].lastActivityAt < stats[b][e].lastActivityAt

\* mutant: the $sort stage is left out, the documents come in any order
SortedRankingsAnyOrder(e) ==
  LET P == Participants(e)
      n == Cardinality(P)
  IN {s \in [1..n -> P] : \A i, j \in 1..n : i # j => s[i] # s[j]}

\* every order the $sort stage may produce; documents equal on both keys
\* come out in an order the store chooses
SortedRankings(e) ==
  LET P == Participants(e)
      n == Cardinality(P)
  IN {s \in [1..n -> P] :
        /\ \A i, j \in 1..n : i # j => s[i] # s[j]
        /\ \A i, j \in 1..n : i < j => ~SortsBefore(e, s[j], s[i])}

\* $skip, $limit, $project and the rank added by the map
LeaderboardPage(e, ranking, limit, offset) ==
  [i \in 1..Max(0, Min(limit, Len(ranking) - offset)) |->
     [userId |-> ranking[offset + i],
      points |-> stats[ranking[offset + i]][e].points,
      lastActivityAt |-> stats[ranking[offset + i]][e].lastActivityAt,
      rank |-> offset + i]]

calculateLeaderboard(e, limit, offset) ==
  /\ \E ranking \in SortedRankings(e) :
       leaderboard' = LeaderboardPage(e, ranking, limit, offset)
  /\ lbArgs' = [eventId |-> e, limit |-> limit, offset |-> offset]
  /\ UNCHANGED nonRankVars

NoLbArgs == [eventId |-> "none", limit |-> 1, offset |-> 0]

\* ------------------------------------------------------------------------
\* Contest scheduler (SchedulerService, GiftsService.sendGiftsToWinners)
\* ------------------------------------------------------------------------
\* locals of a run: the contests still to complete (the first is the current
\* one), the loaded status, the winners and the send counts; and, for the
\* run as a whole, the contests it selected, those completeEvent was called
\* for and those whose completion threw
NoSchLoc ==
  [queue |-> <<>>, status |-> "none", winners |-> <<>>, idx |-> 0, success |-> 0, failed |-> 0,
   selected |-> <<>>, attempted |-> <<>>, thrown |-> <<>>, base |-> 0]

\* mutant: the query also returns contests that are already completed
EndedEventsAnyStatus ==
  {e \in Events : events[e].status \in {"active", "completed"} /\ events[e].endsAt < now}

\* Event.find({ status: 'active', endsAt: { $lt: new Date() } })
EndedEvents ==
  {e \in Events : events[e].status = "active" /\ events[e].endsAt < now}

\* the orders in which a query may return a set of documents
Orderings(S) ==
  {q \in [1..Cardinality(S) -> S] : \A i, j \in 1..Cardinality(S) : i # j => q[i] # q[j]}

SchedQuiet == \A q \in SchedProcs : schPc[q] = "idle"

\* processEvents, lines 51-61: the query, and the start of the loop
processEvents(p) ==
  /\ p \in TickProcs
  /\ schPc[p] = "idle"
  /\ ticks < MaxTicks
  /\ ticks' = ticks + 1
  /\ \E q \in Orderings(EndedEvents) :
       /\ schLoc' = [schLoc EXCEPT ![p] =
                       IF q = <<>> THEN NoSchLoc
                       ELSE [NoSchLoc EXCEPT !.queue = q, !.selected = q,
                                             !.attempted = <<Head(q)>>]]
       /\ schPc' = [schPc EXCEPT ![p] = IF q = <<>> THEN "idle" ELSE "findById"]
  /\ UNCHANGED <<events, completions, sendLog, activations>>
  /\ UNCHANGED nonSchedVars

\* POST /admin/events/:id/complete, routes/admin.ts lines 35-46: the route
\* looks the event up, refuses unless it is active, and calls completeEventManually
adminComplete(p, e) ==
  /\ p \in AdminProcs
  /\ schPc[p] = "idle"
  /\ events[e].status = "active"
  /\ schLoc' = [schLoc EXCEPT ![p] = [NoSchLoc EXCEPT !.queue = <<e>>, !.selected = <<e>>,
                                                       !.attempted = <<e>>]]
  /\ schPc' = [schPc EXCEPT ![p] = "findById"]
  /\ UNCHANGED <<events, ticks, completions, sendLog, activations>>
  /\ UNCHANGED nonSchedVars

\* completeEvent, line 78: Event.findById loads the document
completeFindById(p) ==
  /\ schPc[p] = "findById"
  /\ schLoc' = [schLoc EXCEPT ![p].status = events[Head(schLoc[p].queue)].status]
  /\ schPc' = [schPc EXCEPT ![p] = "selectWinners"]
  /\ UNCHANGED <<events, ticks, completions, sendLog, activations>>
  /\ UNCHANGED nonSchedVars

\* mutant: every prize place gets a winner, the first user where the ranking
\* is short
WinnersOfEveryPlace(e, ranking) ==
  [i \in 1..events[e].winnersCount |->
     [telegramId |-> IF i <= Len(ranking) THEN ranking[i] ELSE 1,
      points |-> IF i <= Len(ranking) THEN stats[ranking[i]][e].points ELSE 0,
      position |-> i,
      giftId |-> IF i <= Len(events[e].prizes) THEN events[e].prizes[i].giftId
                 ELSE "delicious_cake",
      giftSent |-> FALSE]]

\* PointsService.selectWinners, lines 293-332, and the mapping to prizes of
\* completeEvent, lines 97-107
WinnersOf(e, ranking) ==
  [i \in 1..Min(events[e].winnersCount, Len(ranking)) |->
     [telegramId |-> ranking[i],
      points |-> stats[ranking[i]][e].points,
      position |-> i,
      giftId |-> IF i <= Len(events[e].prizes) THEN events[e].prizes[i].giftId
                 ELSE "delicious_cake",
      giftSent |-> FALSE]]

selectWinners(p) ==
  /\ schPc[p] = "selectWinners"
  /\ \E ranking \in SortedRankings(Head(schLoc[p].queue)) :
       schLoc' = [schLoc EXCEPT ![p].winners = WinnersOf(Head(schLoc[p].queue), ranking)]
  /\ schPc' = [schPc EXCEPT ![p] = "save"]
  /\ UNCHANGED <<events, ticks, completions, sendLog, activations>>
  /\ UNCHANGED nonSchedVars

\* what the Event schema keeps of a winner (giftId is not a schema path)
StoredWinner(w) ==
  [telegramId |-> w.telegramId, points |-> w.points, position |-> w.position,
   giftSent |-> w.giftSent]

\* mutant: the loop of processEvents ends after the first contest
SchedContinueFirstOnly(p, thrown) ==
  /\ schLoc' = [schLoc EXCEPT ![p] = NoSchLoc]
  /\ schPc' = [schPc EXCEPT ![p] = "idle"]

\* completeEvent returns: processEvents, lines 63-65, goes on with the next
\* contest of its query result, or ends
SchedContinue(p, thrown) ==
  IF Len(schLoc[p].queue) > 1
  THEN /\ schLoc' = [schLoc EXCEPT ![p] =
                       [NoSchLoc EXCEPT !.queue = Tail(schLoc[p].queue),
                                        !.selected = schLoc[p].selected,
                                        !.attempted = Append(schLoc[p].attempted,
                                                             schLoc[p].queue[2]),
                                        !.thrown = thrown]]
       /\ schPc' = [schPc EXCEPT ![p] = "findById"]
  ELSE /\ schLoc' = [schLoc EXCEPT ![p] = NoSchLoc]
       /\ schPc' = [schPc EXCEPT ![p] = "idle"]

SchedNextEvent(p) == SchedContinue(p, schLoc[p].thrown)

\* mutant: the exception leaves completeEvent and is caught by processEvents,
\* lines 66-68, which ends the run
CaughtInProcessEvents(p) ==
  /\ schLoc' = [schLoc EXCEPT ![p] = NoSchLoc]
  /\ schPc' = [schPc EXCEPT ![p] = "idle"]

\* completeEvent, lines 135-137: the catch logs the error and the call returns
CaughtInCompleteEvent(p) ==
  SchedContinue(p, Append(schLoc[p].thrown, Head(schLoc[p].queue)))

\* an await of completeEvent rejects: Event.findById, selectWinners,
\* event.save (nothing is written), sendGiftsToWinners or the last save
completeEventThrows(p) ==
  /\ schPc[p] \in {"findById", "selectWinners", "save", "send", "save_sent"}
  /\ CaughtInCompleteEvent(p)
  /\ UNCHANGED <<events, ticks, completions, sendLog, activations>>
  /\ UNCHANGED nonSchedVars

\* completeEvent, lines 87-92 and 109-112: event.save() writes the paths the
\* run modified (status if it was not 'completed' when loaded, and winners)
saveCompleted(p) ==
  /\ schPc[p] = "save"
  /\ LET e == Head(schLoc[p].queue)
         w == schLoc[p].winners
         st == IF schLoc[p].status # "completed" THEN "completed" ELSE events[e].status
     IN /\ completions' = [completions EXCEPT ![e] = Append(@, [by |-> p, tick |-> ticks])]
        /\ IF w = <<>>
           THEN /\ events' = [events EXCEPT ![e].status = st]
                /\ SchedNextEvent(p)
           ELSE /\ events' = [events EXCEPT ![e].status = st,
                                            ![e].winners = [i \in 1..Len(w) |-> StoredWinner(w[i])]]
                /\ schLoc' = [schLoc EXCEPT ![p].idx = 1]
                /\ schPc' = [schPc EXCEPT ![p] = "send"]
  /\ UNCHANGED <<ticks, sendLog, activations>>
  /\ UNCHANGED nonSchedVars

\* GiftsService.sendGiftsToWinners, part_005 lines 117-143: one sendGift per
\* winner; the Telegram API accepts or refuses each
sendGiftToWinner(p) ==
  /\ schPc[p] = "send"
  /\ LET e == Head(schLoc[p].queue)
         w == schLoc[p].winners[schLoc[p].idx]
     IN \E sent \in BOOLEAN :
          /\ sendLog' = [sendLog EXCEPT ![e] =
                           Append(@, [telegramId |-> w.telegramId, position |-> w.position,
                                      giftId |-> w.giftId, sent |-> sent])]
          /\ schLoc' = [schLoc EXCEPT ![p].idx = @ + 1,
                                      ![p].success = IF sent THEN @ + 1 ELSE @,
                                      ![p].failed = IF sent THEN @ ELSE @ + 1]
  /\ schPc' = [schPc EXCEPT ![p] =
                 IF schLoc[p].idx = Len(schLoc[p].winners) THEN "save_sent" ELSE "send"]
  /\ UNCHANGED <<events, ticks, completions, activations>>
  /\ UNCHANGED nonSchedVars

\* completeEvent, lines 127-134: giftSent of the first result.success winners, and save
saveGiftSent(p) ==
  /\ schPc[p] = "save_sent"
  /\ LET e == Head(schLoc[p].queue)
     IN events' = [events EXCEPT ![e].winners =
                     [i \in 1..Len(@) |->
                        IF i <= Len(schLoc[p].winners) /\ i - 1 < schLoc[p].success
                        THEN [@[i] EXCEPT !.giftSent = TRUE] ELSE @[i]]]
  /\ SchedNextEvent(p)
  /\ UNCHANGED <<ticks, completions, sendLog, activations>>
  /\ UNCHANGED nonSchedVars

\* durationMs['24h'], one unit of the clock
DURATION_24H == 1

\* POST /events/:id/activate, part_012 lines 1029-1053: Event.findById and
\* the owner and payment checks, which a free or paid-for contest of the
\* caller passes; the contest's status is not looked at
activateFindById(p, e) ==
  /\ p \in OwnerProcs
  /\ schPc[p] = "idle"
  /\ activations < MaxActivations
  /\ activations' = activations + 1
  /\ schLoc' = [schLoc EXCEPT ![p] = [NoSchLoc EXCEPT !.queue = <<e>>, !.status = events[e].status]]
  /\ schPc' = [schPc EXCEPT ![p] = "activate_save"]
  /\ UNCHANGED <<events, ticks, completions, sendLog>>
  /\ UNCHANGED nonSchedVars

\* POST /events/:id/activate, lines 1063-1068: status 'active', startsAt now,
\* endsAt now + duration, and event.save() of the paths that changed
activateSave(p) ==
  /\ schPc[p] = "activate_save"
  /\ LET e == Head(schLoc[p].queue)
     IN events' = [events EXCEPT ![e].status = IF schLoc[p].status # "active" THEN "active" ELSE @,
                                 ![e].startsAt = now,
                                 ![e].endsAt = now + DURATION_24H]
  /\ schLoc' = [schLoc EXCEPT ![p] = NoSchLoc]
  /\ schPc' = [schPc EXCEPT ![p] = "idle"]
  /\ UNCHANGED <<ticks, completions, sendLog, activations>>
  /\ UNCHANGED nonSchedVars

\* server.ts, lines 231-236 and 225: on SIGTERM / SIGINT the process exits,
\* which drops every run in flight; the next process calls start() again and
\* its ticks query the database afresh
shutdown ==
  /\ \E p \in SchedProcs : schPc[p] # "idle"
  /\ schPc' = [p \in SchedProcs |-> "idle"]
  /\ schLoc' = [p \in SchedProcs |-> NoSchLoc]
  /\ UNCHANGED <<events, ticks, completions, sendLog, activations>>
  /\ UNCHANGED nonSchedVars

\* the clock, for the specifications of the scheduler
SchedClockTick ==
  /\ now < MaxTime
  /\ now' = now + 1
  /\ UNCHANGED <<events, stats, boosts, actPc, actLoc, actRet, accepted, actCalls>>
  /\ UNCHANGED nonPointsVars

\* ------------------------------------------------------------------------
\* Second-chance draw (SchedulerService of part_004, SecondChanceEntry)
\* ------------------------------------------------------------------------
\* selectSecondChanceWinners(eventId, 3), part_004 line 437
SECOND_CHANCE_CAP == 3

NoScLog == [timersSet |-> 0, draws |-> <<>>]

\* completeEvent of part_004, lines 404-416: giftSent of the first
\* result.success winners, the save, and the setTimeout of the draw
saveGiftSentAndSchedule(p) ==
  /\ schPc[p] = "save_sent"
  /\ LET e == Head(schLoc[p].queue)
     IN /\ events' = [events EXCEPT ![e].winners =
                        [i \in 1..Len(@) |->
                           IF i <= Len(schLoc[p].winners) /\ i - 1 < schLoc[p].success
                           THEN [@[i] EXCEPT !.giftSent = TRUE] ELSE @[i]]]
        /\ scTimers' = [scTimers EXCEPT ![e] = @ + 1]
        /\ scLog' = [scLog EXCEPT ![e].timersSet = @ + 1]
  /\ SchedNextEvent(p)
  /\ UNCHANGED <<ticks, completions, sendLog, activations, scEntries>>
  /\ UNCHANGED nonDrawVars

DrawFinish(p) ==
  /\ schLoc' = [schLoc EXCEPT ![p] = NoSchLoc]
  /\ schPc' = [schPc EXCEPT ![p] = "idle"]

\* the timer fires; runSecondChanceDraw, lines 430-434: Event.findById and
\* the return unless the contest is completed
runSecondChanceDraw(p, e) ==
  /\ p \in DrawProcs
  /\ schPc[p] = "idle"
  /\ scTimers[e] > 0
  /\ scTimers' = [scTimers EXCEPT ![e] = @ - 1]
  /\ IF events[e].status # "completed"
     THEN DrawFinish(p)
     ELSE /\ schLoc' = [schLoc EXCEPT ![p] =
                          [NoSchLoc EXCEPT !.queue = <<e>>, !.status = events[e].status,
                                           !.base = Len(events[e].winners)]]
          /\ schPc' = [schPc EXCEPT ![p] = "draw_select"]
  /\ UNCHANGED <<events, ticks, completions, sendLog, activations, scEntries, scLog>>
  /\ UNCHANGED nonDrawVars

\* entries of the contest that are not winners yet, neither by their flag
\* nor in the contest's winners list
DrawCandidates(e) ==
  {u \in Entrants :
     /\ scEntries[e][u] = "entered"
     /\ \A i \in 1..Len(events[e].winners) : events[e].winners[i].telegramId # u}

\* PointsService.selectSecondChanceWinners: up to the cap of the candidates,
\* in any order, flagged as winners
selectSecondChanceWinners(p) ==
  /\ schPc[p] = "draw_select"
  /\ LET e == Head(schLoc[p].queue)
         n == Min(SECOND_CHANCE_CAP, Cardinality(DrawCandidates(e)))
     IN \E S \in SUBSET DrawCandidates(e) :
          /\ Cardinality(S) = n
          /\ scEntries' = [scEntries EXCEPT ![e] =
                             [u \in Entrants |-> IF u \in S THEN "winner" ELSE @[u]]]
          /\ IF n = 0
             THEN DrawFinish(p)
             ELSE \E q \in Orderings(S) :
                    /\ schLoc' = [schLoc EXCEPT ![p].winners =
                                    [i \in 1..n |->
                                       [telegramId |-> q[i], points |-> 0,
                                        position |-> schLoc[p].base + i,
                                        giftId |-> IF schLoc[p].base + i <= Len(events[e].prizes)
                                                   THEN events[e].prizes[schLoc[p].base + i].giftId
                                                   ELSE "delicious_cake",
                                        giftSent |-> FALSE]]]
                    /\ schPc' = [schPc EXCEPT ![p] = "draw_save"]
  /\ UNCHANGED <<events, ticks, completions, sendLog, activations, scTimers, scLog>>
  /\ UNCHANGED nonDrawVars

\* runSecondChanceDraw, lines 456-457: winners.push(...newWinners) and save
drawSaveWinners(p) ==
  /\ schPc[p] = "draw_save"
  /\ LET e == Head(schLoc[p].queue)
         w == schLoc[p].winners
     IN /\ events' = [events EXCEPT ![e].winners =
                        @ \o [i \in 1..Len(w) |-> StoredWinner(w[i])]]
        /\ scLog' = [scLog EXCEPT ![e].draws = Append(@, Len(w))]
  /\ schLoc' = [schLoc EXCEPT ![p].idx = 1]
  /\ schPc' = [schPc EXCEPT ![p] = "draw_send"]
  /\ UNCHANGED <<ticks, completions, sendLog, activations, scEntries, scTimers>>
  /\ UNCHANGED nonDrawVars

\* runSecondChanceDraw, line 466: GiftsService.sendGiftsToWinners, one
\* sendGift per new winner
drawSendGift(p) ==
  /\ schPc[p] = "draw_send"
  /\ LET e == Head(schLoc[p].queue)
         w == schLoc[p].winners[schLoc[p].idx]
     IN \E sent \in BOOLEAN :
          /\ sendLog' = [sendLog EXCEPT ![e] =
                           Append(@, [telegramId |-> w.telegramId, position |-> w.position,
                                      giftId |-> w.giftId, sent |-> sent])]
          /\ schLoc' = [schLoc EXCEPT ![p].idx = @ + 1,
                                      ![p].success = IF sent THEN @ + 1 ELSE @,
                                      ![p].failed = IF sent THEN @ ELSE @ + 1]
  /\ schPc' = [schPc EXCEPT ![p] =
                 IF schLoc[p].idx = Len(schLoc[p].winners) THEN "draw_save_sent" ELSE "draw_send"]
  /\ UNCHANGED <<events, ticks, completions, activations>>
  /\ UNCHANGED chanceVars
  /\ UNCHANGED nonDrawVars

\* runSecondChanceDraw, lines 470-478: giftSent of the first result.success
\* new winners, counted from the end of the list the run holds, and save
drawSaveGiftSent(p) ==
  /\ schPc[p] = "draw_save_sent"
  /\ LET e == Head(schLoc[p].queue)
         startIndex == schLoc[p].base
     IN events' = [events EXCEPT ![e].winners =
                     [i \in 1..Len(@) |->
                        IF i > startIndex /\ i - startIndex - 1 < schLoc[p].success
                           /\ i <= startIndex + Len(schLoc[p].winners)
                        THEN [@[i] EXCEPT !.giftSent = TRUE] ELSE @[i]]]
  /\ DrawFinish(p)
  /\ UNCHANGED <<ticks, completions, sendLog, activations>>
  /\ UNCHANGED chanceVars
  /\ UNCHANGED nonDrawVars

\* ------------------------------------------------------------------------
\* Prize distribution (PrizeService, models/PrizeDistribution.ts)
\* ------------------------------------------------------------------------
\* new PrizeDistribution({ eventId, winnerId, position, prizeType, status:
\* 'pending', attempts: 0 }), prize.ts lines 124-131: none of giftId,
\* tonAmount, customReward is copied onto the record
NewDistribution(e, w, pos, prizeType) ==
  [eventId |-> e, winnerId |-> w, position |-> pos, prizeType |-> prizeType,
   hasPrizeFields |-> FALSE, status |-> "pending", attempts |-> 0,
   lastAttemptAt |-> NoDate, sentAt |-> NoDate, error |-> "none"]

\* the keys of PrizeDistribution records: (eventId, winnerId, position)
PrizeKeys == Events \X Users \X (1..MaxWinners)

NoPrzSends ==
  [byKey |-> [k \in PrizeKeys |-> [ok |-> 0, failed |-> 0]],
   fromPool |-> [g \in GiftIds |-> 0]]

NoPrzLoc ==
  [op |-> "none", idx |-> 0, doc |-> NewDistribution("none", 0, 0, "none"),
   giftId |-> "none", source |-> "none", conflict |-> FALSE, sent |-> FALSE]

\* PrizeDistributionSchema.pre('save'), lines 60-73: the field that goes
\* with the prize type must be on the record, and attempts <= 3
DistributionValid(d) ==
  /\ d.hasPrizeFields
  /\ ~(d.attempts > MaxAttempts)

\* PrizeDistribution.findOne({ eventId, winnerId, position })
DistributionMatches(e, w, pos) ==
  {i \in 1..Len(distributions) :
     /\ distributions[i].eventId = e
     /\ distributions[i].winnerId = w
     /\ distributions[i].position = pos}

PrzFinish(c, ret) ==
  /\ przPc' = [przPc EXCEPT ![c] = "idle"]
  /\ przLoc' = [przLoc EXCEPT ![c] = NoPrzLoc]
  /\ przRet' = [przRet EXCEPT ![c] = ret]

\* distribution.attempts >= 3, lines 141 and 297
AttemptsExhausted(d) == d.attempts >= MaxAttempts

\* mutant: the 'already sent' test is left out
AlreadySentIgnored(d) == FALSE

\* distribution.status === 'sent', lines 135 and 302
AlreadySent(d) == d.status = "sent"

\* sendPrize, lines 116-148: find or build the record, return if it is sent
\* or out of attempts, else mark it processing and count the attempt
SendPrizeFind(c, op, e, w, pos) ==
  /\ pos <= Len(events[e].prizes)
  /\ LET m == DistributionMatches(e, w, pos)
         Begin(i, d) ==
           IF AlreadySent(d) THEN PrzFinish(c, IF op = "retry" THEN "true" ELSE "already_sent")
           ELSE IF AttemptsExhausted(d) THEN PrzFinish(c, IF op = "retry" THEN "true" ELSE "max_retries")
           ELSE /\ przLoc' = [przLoc EXCEPT ![c] =
                                [NoPrzLoc EXCEPT
                                   !.op = op, !.idx = i,
                                   !.giftId = events[e].prizes[pos].giftId,
                                   !.doc = [d EXCEPT !.status = "processing",
                                                     !.attempts = @ + 1,
                                                     !.lastAttemptAt = now]]]
                /\ przPc' = [przPc EXCEPT ![c] = "checkAvailability"]
                /\ UNCHANGED przRet
     IN IF m = {}
        THEN Begin(0, NewDistribution(e, w, pos, events[e].prizes[pos].type))
        ELSE \E i \in m : Begin(i, distributions[i])

\* PrizeService.sendPrize called for a winner (as resolvePrizes does, line 97)
sendPrize(c, e, w, pos) ==
  /\ przPc[c] = "idle"
  /\ przCalls < MaxPrizeCalls
  /\ przCalls' = przCalls + 1
  /\ SendPrizeFind(c, "send", e, w, pos)
  /\ UNCHANGED <<distributions, giftPool, przSends>>
  /\ UNCHANGED nonPrizeVars

\* retryFailedPrize, lines 291-316: findById, the two early returns, and the
\* lookup of the event's prize for the record's position
retryFailedPrize(c, i) ==
  /\ przPc[c] = "idle"
  /\ przCalls < MaxPrizeCalls
  /\ przCalls' = przCalls + 1
  /\ IF i \notin 1..Len(distributions)
     THEN PrzFinish(c, "NotFound")
     ELSE IF AttemptsExhausted(distributions[i])
     THEN PrzFinish(c, "false")
     ELSE IF AlreadySent(distributions[i])
     THEN PrzFinish(c, "true")
     ELSE IF distributions[i].position > Len(events[distributions[i].eventId].prizes)
     THEN PrzFinish(c, "PrizeNotFound")
     ELSE /\ przLoc' = [przLoc EXCEPT ![c] = [NoPrzLoc EXCEPT !.op = "retry", !.idx = i]]
          /\ przPc' = [przPc EXCEPT ![c] = "retry_sendPrize"]
          /\ UNCHANGED przRet
  /\ UNCHANGED <<distributions, giftPool, przSends>>
  /\ UNCHANGED nonPrizeVars

\* retryFailedPrize, line 319: sendPrize with the record's own key
retrySendPrize(c) ==
  /\ przPc[c] = "retry_sendPrize"
  /\ LET d == distributions[przLoc[c].idx]
     IN SendPrizeFind(c, "retry", d.eventId, d.winnerId, d.position)
  /\ UNCHANGED <<distributions, giftPool, przCalls, przSends>>
  /\ UNCHANGED nonPrizeVars

\* sendTelegramGift, lines 185-191 and 206-210: the pool is tried when it
\* has a unit available, else the gift is bought on demand
prizeCheckAvailability(c) ==
  /\ przPc[c] = "checkAvailability"
  /\ LET g == przLoc[c].giftId
         available == IF g \in GiftIds THEN checkAvailability(g) ELSE 0
     IN /\ przPc' = [przPc EXCEPT ![c] = IF available > 0 THEN "sendGift_pool"
                                         ELSE "sendGift_on_demand"]
        /\ przLoc' = [przLoc EXCEPT ![c].source = IF available > 0 THEN "pool"
                                                  ELSE "on_demand"]
  /\ UNCHANGED <<distributions, giftPool, przRet, przCalls, przSends>>
  /\ UNCHANGED nonPrizeVars

\* sendPrize, lines 159-169: the outcome of the dispatch on the record in memory
Dispatched(d, ok, message) ==
  IF ok THEN [d EXCEPT !.status = "sent", !.sentAt = now, !.error = "none"]
  ELSE [d EXCEPT !.status = "failed", !.error = message]

\* GiftsService.sendGift was called for the record the call holds, and
\* returned ok; pool tells the branch of sendTelegramGift it was called from
SendRecorded(c, ok, pool) ==
  LET d == przLoc[c].doc
      k == <<d.eventId, d.winnerId, d.position>>
  IN przSends' = [przSends EXCEPT
                    !.byKey[k] = IF ok THEN [@ EXCEPT !.ok = @ + 1]
                                 ELSE [@ EXCEPT !.failed = @ + 1],
                    !.fromPool[przLoc[c].giftId] = IF ok /\ pool THEN @ + 1 ELSE @]

\* GiftsService.sendGift for a pool gift, lines 193-205
prizeSendGiftPool(c) ==
  /\ przPc[c] = "sendGift_pool"
  /\ \E sent \in BOOLEAN :
       /\ IF sent
          THEN /\ przPc' = [przPc EXCEPT ![c] = "markAsUsed"]
               /\ przLoc' = [przLoc EXCEPT ![c].sent = TRUE]
          ELSE /\ przPc' = [przPc EXCEPT ![c] = "distribution_save"]
               /\ przLoc' = [przLoc EXCEPT ![c].doc =
                               Dispatched(@, FALSE, "Failed to send gift from pool")]
       /\ SendRecorded(c, sent, TRUE)
  /\ UNCHANGED <<distributions, giftPool, przRet, przCalls>>
  /\ UNCHANGED nonPrizeVars

\* GiftPoolService.markAsUsed(giftId) from sendTelegramGift, line 200: the
\* read inside the transaction and its reserved >= 1 check
prizeMarkAsUsed(c) ==
  /\ przPc[c] = "markAsUsed"
  /\ LET g == przLoc[c].giftId
     IN IF ~giftPool[g].exists \/ giftPool[g].reserved < 1
        THEN /\ przPc' = [przPc EXCEPT ![c] = "distribution_save"]
             /\ przLoc' = [przLoc EXCEPT ![c].doc =
                             Dispatched(@, FALSE, "Cannot mark more gifts as used than reserved")]
        ELSE /\ przPc' = [przPc EXCEPT ![c] = "markAsUsed_update"]
             /\ przLoc' = [przLoc EXCEPT ![c].conflict = FALSE]
  /\ UNCHANGED <<distributions, giftPool, przRet, przCalls, przSends>>
  /\ UNCHANGED nonPrizeVars

\* GiftPoolService.markAsUsed: the $inc and the commit, aborted by the store
\* if the entry was written since the read
prizeMarkAsUsedUpdate(c) ==
  /\ przPc[c] = "markAsUsed_update"
  /\ LET g == przLoc[c].giftId
     IN IF przLoc[c].conflict
        THEN /\ przLoc' = [przLoc EXCEPT ![c].doc = Dispatched(@, FALSE, "WriteConflict")]
             /\ UNCHANGED giftPool
        ELSE /\ giftPool' = [giftPool EXCEPT ![g].reserved = @ - 1, ![g].used = @ + 1]
             /\ przLoc' = [x \in PrizeCallers |->
                             IF x = c THEN [przLoc[c] EXCEPT !.doc = Dispatched(@, TRUE, "none")]
                             ELSE IF przPc[x] = "markAsUsed_update" /\ przLoc[x].giftId = g
                             THEN [przLoc[x] EXCEPT !.conflict = TRUE]
                             ELSE przLoc[x]]
  /\ przPc' = [przPc EXCEPT ![c] = "distribution_save"]
  /\ UNCHANGED <<distributions, przRet, przCalls, przSends>>
  /\ UNCHANGED nonPrizeVars

\* GiftsService.sendGift for an on-demand gift, lines 214-225
prizeSendGiftOnDemand(c) ==
  /\ przPc[c] = "sendGift_on_demand"
  /\ \E sent \in BOOLEAN :
       /\ przLoc' = [przLoc EXCEPT ![c].sent = sent,
                                   ![c].doc = Dispatched(@, sent, "Failed to send gift (on-demand)")]
       /\ SendRecorded(c, sent, FALSE)
  /\ przPc' = [przPc EXCEPT ![c] = "distribution_save"]
  /\ UNCHANGED <<distributions, giftPool, przRet, przCalls>>
  /\ UNCHANGED nonPrizeVars

\* distribution.save(), line 171: the pre-save validator throws, or the new
\* record is inserted, or the paths sendPrize modified are written
distributionSave(c) ==
  /\ przPc[c] = "distribution_save"
  /\ LET d == przLoc[c].doc
         i == przLoc[c].idx
     IN IF ~DistributionValid(d)
        THEN /\ PrzFinish(c, "ValidationError")
             /\ UNCHANGED distributions
        ELSE /\ distributions' =
                  IF i = 0 THEN Append(distributions, d)
                  ELSE [distributions EXCEPT ![i].status = d.status,
                                             ![i].attempts = d.attempts,
                                             ![i].lastAttemptAt = d.lastAttemptAt,
                                             ![i].sentAt = d.sentAt,
                                             ![i].error = d.error]
             /\ PrzFinish(c, IF przLoc[c].op = "retry" THEN "true" ELSE "done")
  /\ UNCHANGED <<giftPool, przCalls, przSends>>
  /\ UNCHANGED nonPrizeVars

\* the clock, for the specification of prize distribution
PrizeClockTick ==
  /\ now < MaxPrizeTime
  /\ now' = now + 1
  /\ UNCHANGED <<events, stats, boosts, actPc, actLoc, actRet, accepted, actCalls>>
  /\ UNCHANGED nonPointsVars

\* ------------------------------------------------------------------------
\* Scheduler timers (SchedulerService.start / stop)
\* ------------------------------------------------------------------------
MaxStarts == 3
MaxTimerRuns == 2

\* intervalId = null
NoTimeout == 0
TimerFns == {"processEvents", "checkExpiredSubscriptions"}

\* setInterval(fn): a new active timer under the next handle
SetInterval(h, fn) == [id |-> h, fn |-> fn]

\* clearInterval(h): the timer of that handle is no longer active
ClearInterval(h) == {t \in timers : t.id # h}

\* start(): returns at once when intervalId is set; otherwise runs both
\* functions once, stores the handle of the per-minute timer in intervalId and
\* sets the hourly timer, whose handle is dropped
start ==
  /\ handles < 2 * MaxStarts
  /\ lastCall' = "start"
  /\ IF intervalId # NoTimeout
     THEN UNCHANGED <<intervalId, timers, handles, timerRuns>>
     ELSE /\ timerRuns' = [fn \in TimerFns |-> timerRuns[fn] + 1]
          /\ intervalId' = handles + 1
          /\ timers' = timers \cup {SetInterval(handles + 1, "processEvents"),
                                     SetInterval(handles + 2, "checkExpiredSubscriptions")}
          /\ handles' = handles + 2
  /\ UNCHANGED nonTimerVars

\* stop(): clears the timer stored in intervalId, if any
stop ==
  /\ lastCall' = "stop"
  /\ IF intervalId # NoTimeout
     THEN /\ timers' = ClearInterval(intervalId)
          /\ intervalId' = NoTimeout
     ELSE UNCHANGED <<intervalId, timers>>
  /\ UNCHANGED <<handles, timerRuns>>
  /\ UNCHANGED nonTimerVars

\* an active timer fires and invokes its function
intervalFires(t) ==
  /\ t \in timers
  /\ timerRuns[t.fn] < MaxStarts + MaxTimerRuns
  /\ timerRuns' = [timerRuns EXCEPT ![t.fn] = @ + 1]
  /\ UNCHANGED <<intervalId, timers, handles, lastCall>>
  /\ UNCHANGED nonTimerVars

\* ------------------------------------------------------------------------
\* Initial states and specifications
\* ------------------------------------------------------------------------
PoolIdle ==
  /\ giftPool = [g \in GiftIds |-> NoGiftDoc]
  /\ poolPc = [c \in PoolCallers |-> "idle"]
  /\ poolArg = [c \in PoolCallers |-> NoPoolArg]
  /\ poolRet = [c \in PoolCallers |-> "none"]
  /\ poolStart = giftPool
  /\ poolHist = [g \in GiftIds |-> NoPoolHist]

PointsIdle ==
  /\ now = 0
  /\ events = [e \in Events |-> NoEventDoc]
  /\ stats = [u \in Users |-> [e \in Events |-> NoStatsDoc]]
  /\ boosts = <<>>
  /\ actPc = [c \in ActCallers |-> "idle"]
  /\ actLoc = [c \in ActCallers |-> NoActLoc]
  /\ actRet = [c \in ActCallers |-> "none"]
  /\ accepted = [u \in Users |-> [e \in Events |-> 0]]
  /\ actCalls = 0

RankIdle ==
  /\ lbArgs = NoLbArgs
  /\ leaderboard = <<>>

ChanceIdle ==
  /\ scEntries = [e \in Events |-> [u \in Entrants |-> "none"]]
  /\ scTimers = [e \in Events |-> 0]
  /\ scLog = [e \in Events |-> NoScLog]

\* the process has just loaded the class: intervalId = null, no timer set
TimerIdle ==
  /\ intervalId = NoTimeout
  /\ timers = {}
  /\ handles = 0
  /\ timerRuns = [fn \in TimerFns |-> 0]
  /\ lastCall = "none"

SchedIdle ==
  /\ schPc = [p \in SchedProcs |-> "idle"]
  /\ schLoc = [p \in SchedProcs |-> NoSchLoc]
  /\ ticks = 0
  /\ completions = [e \in Events |-> <<>>]
  /\ sendLog = [e \in Events |-> <<>>]
  /\ activations = 0
  /\ ChanceIdle
  /\ TimerIdle

PrizeIdle ==
  /\ distributions = <<>>
  /\ przPc = [c \in PrizeCallers |-> "idle"]
  /\ przLoc = [c \in PrizeCallers |-> NoPrzLoc]
  /\ przRet = [c \in PrizeCallers |-> "none"]
  /\ przCalls = 0
  /\ przSends = NoPrzSends

PoolInit ==
  /\ giftPool \in [GiftIds -> GiftPoolDocs]
  /\ poolPc = [c \in PoolCallers |-> "idle"]
  /\ poolArg = [c \in PoolCallers |-> NoPoolArg]
  /\ poolRet = [c \in PoolCallers |-> "none"]
  /\ poolStart = giftPool
  /\ poolHist = [g \in GiftIds |-> NoPoolHist]

PointsInit ==
  /\ now = 0
  /\ \E a \in ActivityTypes :
       events = [e \in Events |->
                   IF e = "e1"
                   THEN [NoEventDoc EXCEPT !.status = "active", !.endsAt = EventEnd,
                                           !.activityType = a]
                   ELSE NoEventDoc]
  /\ \E d \in {NoStatsDoc, NewStatsDoc(0)} :
       stats = [u \in Users |-> [e \in Events |->
                  IF u = 1 /\ e = "e1" THEN d ELSE NoStatsDoc]]
  /\ boosts = <<>>
  /\ actPc = [c \in ActCallers |-> "idle"]
  /\ actLoc = [c \in ActCallers |-> NoActLoc]
  /\ actRet = [c \in ActCallers |-> "none"]
  /\ accepted = [u \in Users |-> [e \in Events |-> 0]]
  /\ actCalls = 0

\* participants' records as scoring leaves them: points and a last activity time
StatsDocs ==
  {NoStatsDoc} \cup
  {[NewStatsDoc(t) EXCEPT !.points = p] : p \in 0..MaxPoints, t \in 0..1}

\* records of participants when a contest is about to end
EndedStatsDocs ==
  {NoStatsDoc} \cup
  {[NewStatsDoc(t) EXCEPT !.points = p] : p \in 1..MaxPoints, t \in 0..1}

InitPool == PoolInit /\ PointsIdle /\ RankIdle /\ SchedIdle /\ PrizeIdle

InitPoints == PointsInit /\ PoolIdle /\ RankIdle /\ SchedIdle /\ PrizeIdle

InitRank ==
  /\ now = MaxTime
  /\ events = [e \in Events |->
                 IF e = "e1" THEN [NoEventDoc EXCEPT !.status = "active", !.endsAt = MaxTime + 1]
                 ELSE NoEventDoc]
  /\ \E f \in [Users -> StatsDocs] :
       stats = [u \in Users |-> [e \in Events |-> IF e = "e1" THEN f[u] ELSE NoStatsDoc]]
  /\ boosts = <<>>
  /\ actPc = [c \in ActCallers |-> "idle"]
  /\ actLoc = [c \in ActCallers |-> NoActLoc]
  /\ actRet = [c \in ActCallers |-> "none"]
  /\ accepted = [u \in Users |-> [e \in Events |-> stats[u][e].points]]
  /\ actCalls = 0
  /\ PoolIdle
  /\ RankIdle
  /\ SchedIdle
  /\ PrizeIdle

\* two active contests: e1 with up to three participants and any
\* winnersCount, e2 with at most one participant and a later end
InitSched ==
  /\ now = 0
  /\ \E n \in 1..MaxWinners, end2 \in {EventEnd - 1, EventEnd} :
       events = [e \in Events |->
                   IF e = "e1"
                   THEN [NoEventDoc EXCEPT !.status = "active", !.endsAt = EventEnd - 1,
                                           !.winnersCount = n, !.prizes = PrizeList(n)]
                   ELSE [NoEventDoc EXCEPT !.status = "active", !.endsAt = end2]]
  /\ \E f \in [Users -> EndedStatsDocs], d \in {NoStatsDoc, [NewStatsDoc(0) EXCEPT !.points = 1]} :
       /\ f[3] \in {NoStatsDoc, [NewStatsDoc(0) EXCEPT !.points = 1]}
       /\ f[2].exists => f[2].lastActivityAt = 0
       /\ stats = [u \in Users |->
                    [e \in Events |-> IF e = "e1" THEN f[u]
                                      ELSE IF u = 1 THEN d ELSE NoStatsDoc]]
  /\ boosts = <<>>
  /\ actPc = [c \in ActCallers |-> "idle"]
  /\ actLoc = [c \in ActCallers |-> NoActLoc]
  /\ actRet = [c \in ActCallers |-> "none"]
  /\ accepted = [u \in Users |-> [e \in Events |-> stats[u][e].points]]
  /\ actCalls = 0
  /\ PoolIdle
  /\ RankIdle
  /\ SchedIdle
  /\ PrizeIdle

PoolNext ==
  \/ syncGiftsFromTelegram
  \/ \E c \in PoolCallers, g \in GiftIds, q \in Quantities : addToPool(c, g, q)
  \/ \E c \in PoolCallers, g \in GiftIds, q \in Quantities : reserveGift(c, g, q)
  \/ \E c \in PoolCallers, g \in GiftIds, q \in Quantities : releaseGift(c, g, q)
  \/ \E c \in PoolCallers : releaseGiftUpdate(c)
  \/ \E c \in PoolCallers, g \in GiftIds, q \in Quantities : markAsUsed(c, g, q)
  \/ \E c \in PoolCallers : markAsUsedUpdate(c)

PointsNext ==
  \/ ClockTick
  \/ \E c \in ActCallers, u \in Scorers, e \in Events : handleReaction(c, u, e)
  \/ \E c \in ActCallers, u \in Scorers, e \in Events, r \in BOOLEAN : handleComment(c, u, e, r)
  \/ \E c \in ActCallers : statsFindOne(c)
  \/ \E c \in ActCallers : getActiveBoost(c)
  \/ \E c \in ActCallers : boostChecked(c)
  \/ \E c \in ActCallers : statsSave(c)
  \/ \E c \in ActCallers : eventInc(c)
  \/ \E c \in ActCallers, u \in Scorers, e \in RunningEvents, b \in BoostTypes : applyBoost(c, u, e, b)
  \/ \E c \in ActCallers : boostSave(c)
  \/ \E c \in ActCallers : boostStats(c)

RankNext ==
  \E e \in Events, limit \in 1..MaxLimit, offset \in 0..MaxOffset :
    calculateLeaderboard(e, limit, offset)

\* a timer tick, or an admin completion, that begins once the previous run has returned
tickInSuccession(p) == SchedQuiet /\ processEvents(p)

adminInSuccession(p, e) == SchedQuiet /\ adminComplete(p, e)

SchedNext ==
  \/ SchedClockTick
  \/ \E p \in SchedProcs : tickInSuccession(p)
  \/ \E p \in SchedProcs, e \in Events : adminInSuccession(p, e)
  \/ \E p \in SchedProcs : completeFindById(p)
  \/ \E p \in SchedProcs : selectWinners(p)
  \/ \E p \in SchedProcs : saveCompleted(p)
  \/ \E p \in SchedProcs : sendGiftToWinner(p)
  \/ \E p \in SchedProcs : saveGiftSent(p)

\* one running contest with at most one participant and one draft
InitLife ==
  /\ now = 0
  /\ events = [e \in Events |->
                 IF e = "e1"
                 THEN [NoEventDoc EXCEPT !.status = "active", !.startsAt = 0 - DURATION_24H,
                                         !.endsAt = 0]
                 ELSE NoEventDoc]
  /\ \E d \in {NoStatsDoc, [NewStatsDoc(0) EXCEPT !.points = 1]} :
       stats = [u \in Users |-> [e \in Events |->
                  IF u = 1 /\ e = "e1" THEN d ELSE NoStatsDoc]]
  /\ boosts = <<>>
  /\ actPc = [c \in ActCallers |-> "idle"]
  /\ actLoc = [c \in ActCallers |-> NoActLoc]
  /\ actRet = [c \in ActCallers |-> "none"]
  /\ accepted = [u \in Users |-> [e \in Events |-> stats[u][e].points]]
  /\ actCalls = 0
  /\ PoolIdle
  /\ RankIdle
  /\ SchedIdle
  /\ PrizeIdle

\* the scheduler, the admin completion and the owner's activate requests
LifeNext ==
  \/ SchedClockTick
  \/ \E p \in SchedProcs : processEvents(p)
  \/ \E p \in SchedProcs, e \in Events : adminComplete(p, e)
  \/ \E p \in SchedProcs : completeFindById(p)
  \/ \E p \in SchedProcs : selectWinners(p)
  \/ \E p \in SchedProcs : saveCompleted(p)
  \/ \E p \in SchedProcs : sendGiftToWinner(p)
  \/ \E p \in SchedProcs : saveGiftSent(p)
  \/ \E p \in SchedProcs, e \in Events : activateFindById(p, e)
  \/ \E p \in SchedProcs : activateSave(p)

\* two running contests that end together, each with at most one participant
InitFault ==
  /\ now = 0
  /\ events = [e \in Events |->
                 [NoEventDoc EXCEPT !.status = "active", !.startsAt = 0 - DURATION_24H,
                                    !.endsAt = 0]]
  /\ \E d1, d2 \in {NoStatsDoc, [NewStatsDoc(0) EXCEPT !.points = 1]} :
       stats = [u \in Users |-> [e \in Events |->
                  IF u = 1 /\ e = "e1" THEN d1
                  ELSE IF u = 2 /\ e = "e2" THEN d2 ELSE NoStatsDoc]]
  /\ boosts = <<>>
  /\ actPc = [c \in ActCallers |-> "idle"]
  /\ actLoc = [c \in ActCallers |-> NoActLoc]
  /\ actRet = [c \in ActCallers |-> "none"]
  /\ accepted = [u \in Users |-> [e \in Events |-> stats[u][e].points]]
  /\ actCalls = 0
  /\ PoolIdle
  /\ RankIdle
  /\ SchedIdle
  /\ PrizeIdle

\* the scheduler and the manual completion, with awaits that may reject
FaultNext ==
  \/ SchedClockTick
  \/ \E p \in SchedProcs : processEvents(p)
  \/ \E p \in SchedProcs, e \in Events : adminComplete(p, e)
  \/ \E p \in SchedProcs : completeFindById(p)
  \/ \E p \in SchedProcs : selectWinners(p)
  \/ \E p \in SchedProcs : saveCompleted(p)
  \/ \E p \in SchedProcs : sendGiftToWinner(p)
  \/ \E p \in SchedProcs : saveGiftSent(p)
  \/ \E p \in SchedProcs : completeEventThrows(p)

\* contest e1 has just ended with one participant and one prize place, and
\* the first n entrants are entered for its second-chance draw
InitChance ==
  /\ now = 1
  /\ events = [e \in Events |->
                 IF e = "e1"
                 THEN [NoEventDoc EXCEPT !.status = "active", !.startsAt = 0 - DURATION_24H,
                                         !.endsAt = 0]
                 ELSE NoEventDoc]
  /\ stats = [u \in Users |-> [e \in Events |->
                IF e = "e1" /\ u = 1 THEN [NewStatsDoc(0) EXCEPT !.points = 2]
                ELSE NoStatsDoc]]
  /\ boosts = <<>>
  /\ actPc = [c \in ActCallers |-> "idle"]
  /\ actLoc = [c \in ActCallers |-> NoActLoc]
  /\ actRet = [c \in ActCallers |-> "none"]
  /\ accepted = [u \in Users |-> [e \in Events |-> stats[u][e].points]]
  /\ actCalls = 0
  /\ PoolIdle
  /\ RankIdle
  /\ schPc = [p \in SchedProcs |-> "idle"]
  /\ schLoc = [p \in SchedProcs |-> NoSchLoc]
  /\ ticks = 0
  /\ completions = [e \in Events |-> <<>>]
  /\ sendLog = [e \in Events |-> <<>>]
  /\ activations = 0
  /\ \E n \in {0, 1, Cardinality(Entrants)} :
       scEntries = [e \in Events |-> [u \in Entrants |->
                      IF e = "e1" /\ u < 11 + n THEN "entered" ELSE "none"]]
  /\ scTimers = [e \in Events |-> 0]
  /\ scLog = [e \in Events |-> NoScLog]
  /\ TimerIdle
  /\ PrizeIdle

\* the scheduler of part_004 with its second-chance draw, and the manual completion
ChanceNext ==
  \/ \E p \in SchedProcs : processEvents(p)
  \/ \E p \in SchedProcs, e \in Events : adminComplete(p, e)
  \/ \E p \in SchedProcs : completeFindById(p)
  \/ \E p \in SchedProcs : selectWinners(p)
  \/ \E p \in SchedProcs : saveCompleted(p)
  \/ \E p \in SchedProcs : sendGiftToWinner(p)
  \/ \E p \in SchedProcs : saveGiftSentAndSchedule(p)
  \/ \E p \in SchedProcs, e \in Events : runSecondChanceDraw(p, e)
  \/ \E p \in SchedProcs : selectSecondChanceWinners(p)
  \/ \E p \in SchedProcs : drawSaveWinners(p)
  \/ \E p \in SchedProcs : drawSendGift(p)
  \/ \E p \in SchedProcs : drawSaveGiftSent(p)

\* records a database may hold for a (contest, winner, position): written
\* with their prize fields, validated by the schema
SeededDistributions(e, w, pos) ==
  LET base == [NewDistribution(e, w, pos, "telegram_gift") EXCEPT !.hasPrizeFields = TRUE]
  IN {[base EXCEPT !.status = "failed", !.attempts = n, !.lastAttemptAt = 0,
                   !.error = "Failed to send gift (on-demand)"] :
           n \in (MaxAttempts - 1)..MaxAttempts}
     \cup {[base EXCEPT !.status = "sent", !.attempts = 1, !.lastAttemptAt = 0, !.sentAt = 0]}
     \cup {base}

\* the process has started and has not called start() yet
InitTimer == PoolIdle /\ PointsIdle /\ RankIdle /\ SchedIdle /\ PrizeIdle

TimerNext ==
  \/ start
  \/ stop
  \/ \E t \in timers : intervalFires(t)

\* the sendGift calls a stored record stands for: one per attempt, the
\* successful one being that of a sent record
SendsBehind(k) ==
  LET m == DistributionMatches(k[1], k[2], k[3])
  IN IF m = {} THEN [ok |-> 0, failed |-> 0]
     ELSE LET d == distributions[CHOOSE i \in m : TRUE]
              ok == IF d.status = "sent" THEN 1 ELSE 0
          IN [ok |-> ok, failed |-> d.attempts - ok]

\* a completed contest with two winners, the pool entry of the second
\* prize (absent, or stocked with at most one unit reserved), and the
\* distribution records of the winners
InitPrize ==
  /\ now = 0
  /\ events = [e \in Events |->
                 IF e = "e1"
                 THEN [NoEventDoc EXCEPT
                         !.status = "completed", !.endsAt = 0, !.winnersCount = 2,
                         !.prizes = PrizeList(2),
                         !.winners = <<[telegramId |-> 1, points |-> 2, position |-> 1, giftSent |-> FALSE],
                                       [telegramId |-> 2, points |-> 1, position |-> 2, giftSent |-> FALSE]>>]
                 ELSE NoEventDoc]
  /\ stats = [u \in Users |-> [e \in Events |-> NoStatsDoc]]
  /\ boosts = <<>>
  /\ actPc = [c \in ActCallers |-> "idle"]
  /\ actLoc = [c \in ActCallers |-> NoActLoc]
  /\ actRet = [c \in ActCallers |-> "none"]
  /\ accepted = [u \in Users |-> [e \in Events |-> 0]]
  /\ actCalls = 0
  /\ giftPool \in [GiftIds -> {d \in GiftPoolDocs :
                                 /\ d.used = 0
                                 /\ d.exists => (d.totalAvailable = MaxTotal /\ d.reserved <= 1)}]
  /\ poolPc = [c \in PoolCallers |-> "idle"]
  /\ poolArg = [c \in PoolCallers |-> NoPoolArg]
  /\ poolRet = [c \in PoolCallers |-> "none"]
  /\ poolStart = giftPool
  /\ poolHist = [g \in GiftIds |-> NoPoolHist]
  /\ RankIdle
  /\ SchedIdle
  /\ \E d1 \in SeededDistributions("e1", 1, 1), d2 \in SeededDistributions("e1", 2, 2) :
       /\ d2.attempts = MaxAttempts - 1
       /\ distributions \in {<<d1>>, <<d1, d2>>}
  /\ przPc = [c \in PrizeCallers |-> "idle"]
  /\ przLoc = [c \in PrizeCallers |-> NoPrzLoc]
  /\ przRet = [c \in PrizeCallers |-> "none"]
  /\ przCalls = 0
  /\ przSends = [NoPrzSends EXCEPT !.byKey = [k \in PrizeKeys |-> SendsBehind(k)]]

\* resolvePrizes, lines 89-97: sendPrize for the i-th winner of the contest
sendPrizeToWinner(c, e, i) ==
  /\ i <= Len(events[e].winners)
  /\ sendPrize(c, e, events[e].winners[i].telegramId, events[e].winners[i].position)

PrizeNext ==
  \/ PrizeClockTick
  \/ \E c \in PrizeCallers, e \in Events, i \in 1..MaxWinners : sendPrizeToWinner(c, e, i)
  \/ \E c \in PrizeCallers, i \in 1..(MaxWinners + 1) : retryFailedPrize(c, i)
  \/ \E c \in PrizeCallers : retrySendPrize(c)
  \/ \E c \in PrizeCallers : prizeCheckAvailability(c)
  \/ \E c \in PrizeCallers : prizeSendGiftPool(c)
  \/ \E c \in PrizeCallers : prizeMarkAsUsed(c)
  \/ \E c \in PrizeCallers : prizeMarkAsUsedUpdate(c)
  \/ \E c \in PrizeCallers : prizeSendGiftOnDemand(c)
  \/ \E c \in PrizeCallers : distributionSave(c)

SpecPool == InitPool /\ [][PoolNext]_vars

SpecPoints == InitPoints /\ [][PointsNext]_vars

SpecRank == InitRank /\ [][RankNext]_vars

SpecSched == InitSched /\ [][SchedNext]_vars

SpecPrize == InitPrize /\ [][PrizeNext]_vars

SpecLife == InitLife /\ [][LifeNext]_vars

SpecFault == InitFault /\ [][FaultNext]_vars

SpecChance == InitChance /\ [][ChanceNext]_vars

SpecTimer == InitTimer /\ [][TimerNext]_vars

\* the timer of start() keeps firing (setInterval), and every await of a run
\* returns in the end
SchedFairness ==
  \A p \in SchedProcs :
    /\ WF_vars(tickInSuccession(p))
    /\ WF_vars(completeFindById(p))
    /\ WF_vars(selectWinners(p))
    /\ WF_vars(saveCompleted(p))
    /\ WF_vars(sendGiftToWinner(p))
    /\ WF_vars(saveGiftSent(p))

SpecLive == InitFault /\ [][SchedNext]_vars /\ SchedFairness

\* the scheduler in a process that may be stopped and started again
RestartNext ==
  \/ SchedClockTick
  \/ \E p \in SchedProcs : tickInSuccession(p)
  \/ \E p \in SchedProcs, e \in Events : adminInSuccession(p, e)
  \/ \E p \in SchedProcs : completeFindById(p)
  \/ \E p \in SchedProcs : selectWinners(p)
  \/ \E p \in SchedProcs : saveCompleted(p)
  \/ \E p \in SchedProcs : sendGiftToWinner(p)
  \/ \E p \in SchedProcs : saveGiftSent(p)
  \/ shutdown

SpecRestart == InitFault /\ [][RestartNext]_vars /\ SchedFairness

\* ------------------------------------------------------------------------
\* Properties
\* ------------------------------------------------------------------------
\* C1: for every gift-pool entry, reserved + used <= totalAvailable in every
\* reachable state, whatever the interleaving of reserveGift, releaseGift,
\* markAsUsed and addToPool calls.
C1_ReservedPlusUsedWithinTotal ==
  \A g \in GiftIds :
    giftPool[g].reserved + giftPool[g].used <= giftPool[g].totalAvailable

\* a reservation took the last unit of an entry while another caller was
\* in the middle of a release
C1_Witness ==
  \E g \in GiftIds :
    /\ giftPool[g].exists
    /\ giftPool[g].totalAvailable > 0
    /\ giftPool[g].reserved + giftPool[g].used = giftPool[g].totalAvailable
    /\ poolHist[g].reserveTrue > 0
    /\ \E c \in PoolCallers : poolPc[c] # "idle"

ScoringInFlight(u, e) ==
  \E c \in ActCallers :
    actPc[c] # "idle" /\ actLoc[c].op = "score"
    /\ actLoc[c].userId = u /\ actLoc[c].eventId = e

\* C3: whenever no scoring call for a (participant, contest) is in flight,
\* the stored point total equals the sum of the points returned by the calls
\* that were accepted: no accepted call's points are lost.
C3_PointsEqualAccepted ==
  \A u \in Users, e \in Events :
    ~ScoringInFlight(u, e) => stats[u][e].points = accepted[u][e]

\* a Boost record of the participant in the contest that is active and has
\* not expired
HasUnexpiredBoost(u, e) ==
  \E i \in 1..Len(boosts) :
    /\ boosts[i].userId = u /\ boosts[i].eventId = e /\ boosts[i].isActive
    /\ (boosts[i].expiresAt = NoDate \/ boosts[i].expiresAt > now)

\* C8: an applyBoost call made while the participant has an active boost in
\* the contest fails with 'already has an active boost' and changes nothing:
\* no Boost record is added or changed and no stats record is touched, so
\* scoring keeps reading the first boost.
C8_SecondBoostRejected ==
  [][\A c \in ActCallers, u \in Scorers, e \in Events, b \in BoostTypes :
       (applyBoost(c, u, e, b) /\ HasUnexpiredBoost(u, e))
       => /\ actRet'[c] = "BoostAlreadyActive"
          /\ actPc'[c] = "idle"
          /\ boosts' = boosts
          /\ stats' = stats]_vars

C8_Witness ==
  \E c \in ActCallers, d \in ActCallers :
    /\ actRet[c] = "BoostAlreadyActive"
    /\ actRet[d] = "ok"
    /\ Cardinality(ActiveBoostMatches(1, "e1")) = 1
    /\ \A i \in ActiveBoostMatches(1, "e1") : boosts[i].type = "x1.5_forever"
    /\ stats[1]["e1"].boostMultiplier = MULT_X15

\* C9: at most one Boost record with isActive = true per (participant,
\* contest) in every reachable state.
C9_OneActiveBoost ==
  \A u \in Users, e \in Events : Cardinality(ExistingBoosts(u, e)) <= 1

\* C10: a handleReaction or handleComment call on a contest that is not
\* active, or whose endsAt is not in the future, fails with an error and
\* mutates nothing (no stats record, no boost, no contest counter).
C10_InactiveContestRejected ==
  [][\A c \in ActCallers, u \in Scorers, e \in Events, k \in ActionKinds :
       (ScoreEnter(c, u, e, k) /\ (events[e].status # "active" \/ ~(events[e].endsAt > now)))
       => /\ actRet'[c] = "EventNotActive"
          /\ actPc'[c] = "idle"
          /\ stats' = stats
          /\ boosts' = boosts
          /\ events' = events]_vars

\* a call was turned away after the running contest's end time, an
\* accepted call having scored before
C10_Witness ==
  /\ events["e1"].status = "active"
  /\ events["e1"].endsAt <= now
  /\ \E c \in ActCallers : actRet[c] = "EventNotActive" /\ actPc[c] = "idle"
  /\ accepted[1]["e1"] > 0

LbEvent == lbArgs.eventId

\* C6: the leaderboard is a total order over the contest's participants:
\* an entry with more points has the smaller rank, with equal points the
\* earlier lastActivityAt has the smaller rank (also against participants
\* outside the returned page), each participant is listed at most once with
\* their stored points, and ranks run offset+1, offset+2, ... without gaps.
C6_LeaderboardTotalOrder ==
  lbArgs.eventId \in Events =>
  LET n == Cardinality(Participants(LbEvent))
      m == Len(leaderboard)
  IN /\ m = Max(0, Min(lbArgs.limit, n - lbArgs.offset))
     /\ \A i \in 1..m :
          /\ leaderboard[i].rank = lbArgs.offset + i
          /\ leaderboard[i].userId \in Participants(LbEvent)
          /\ leaderboard[i].points = stats[leaderboard[i].userId][LbEvent].points
          /\ leaderboard[i].lastActivityAt = stats[leaderboard[i].userId][LbEvent].lastActivityAt
     /\ \A i, j \in 1..m :
          /\ i # j => leaderboard[i].userId # leaderboard[j].userId
          /\ leaderboard[i].points > leaderboard[j].points
               => leaderboard[i].rank < leaderboard[j].rank
          /\ ( /\ leaderboard[i].points = leaderboard[j].points
               /\ leaderboard[i].lastActivityAt < leaderboard[j].lastActivityAt )
               => leaderboard[i].rank < leaderboard[j].rank
     /\ \A i \in 1..m :
          LET ahead == {u \in Participants(LbEvent) :
                          \/ stats[u][LbEvent].points > leaderboard[i].points
                          \/ /\ stats[u][LbEvent].points = leaderboard[i].points
                             /\ stats[u][LbEvent].lastActivityAt < leaderboard[i].lastActivityAt}
              behind == {u \in Participants(LbEvent) :
                          \/ stats[u][LbEvent].points < leaderboard[i].points
                          \/ /\ stats[u][LbEvent].points = leaderboard[i].points
                             /\ stats[u][LbEvent].lastActivityAt > leaderboard[i].lastActivityAt}
          IN /\ Cardinality(ahead) < leaderboard[i].rank
             /\ leaderboard[i].rank <= n - Cardinality(behind)

\* a page of two entries taken at offset 1 from three participants, two of
\* them tied on points with different activity times
C6_Witness ==
  /\ lbArgs.offset = 1
  /\ Len(leaderboard) = 2
  /\ Cardinality(Participants(LbEvent)) = 3
  /\ leaderboard[1].points = leaderboard[2].points
  /\ leaderboard[1].lastActivityAt < leaderboard[2].lastActivityAt
  /\ \E u \in Participants(LbEvent) : stats[u][LbEvent].points > leaderboard[1].points

\* C4: with scheduler runs in immediate succession (each run starts when the
\* previous one has returned), an expired contest is completed once: its
\* completion is persisted by one run only, no winner is sent a prize a
\* second time, and no (contest, winner, position) has two distribution
\* records.
C4_CompletedOnlyOnce ==
  \A e \in Events :
    /\ Len(completions[e]) <= 1
    /\ \A i, j \in 1..Len(sendLog[e]) :
         (sendLog[e][i].telegramId = sendLog[e][j].telegramId
            /\ sendLog[e][i].position = sendLog[e][j].position) => i = j
    /\ \A i, j \in 1..Len(distributions) :
         (distributions[i].eventId = e /\ distributions[j].eventId = e
            /\ distributions[i].winnerId = distributions[j].winnerId
            /\ distributions[i].position = distributions[j].position) => i = j

\* the first tick completed e1 with winners and sent their prizes, and a
\* second tick has run to its end since
C4_Witness ==
  /\ ticks = 2
  /\ SchedQuiet
  /\ events["e1"].status = "completed"
  /\ Len(events["e1"].winners) >= 1
  /\ completions["e1"] = <<[by |-> "tick", tick |-> 1]>>
  /\ Len(sendLog["e1"]) = Len(events["e1"].winners)

\* C7: once the scheduler has completed a contest with k >= 1 winners, the
\* contest has exactly k PrizeDistribution records, one per (winner,
\* position), each with attempts = 1 and status sent or failed.
C7_DistributionPerWinner ==
  \A e \in Events :
    (SchedQuiet /\ Len(completions[e]) >= 1 /\ Len(events[e].winners) >= 1) =>
      \A k \in 1..Len(events[e].winners) :
        LET m == DistributionMatches(e, events[e].winners[k].telegramId,
                                     events[e].winners[k].position)
        IN /\ Cardinality(m) = 1
           /\ \A i \in m : /\ distributions[i].attempts = 1
                           /\ distributions[i].status \in {"sent", "failed"}

\* a sendPrize or retryFailedPrize call that starts now, for record i
PrizeCallStarts(i) ==
  \E c \in PrizeCallers :
    \/ retryFailedPrize(c, i)
    \/ sendPrize(c, distributions[i].eventId, distributions[i].winnerId,
                 distributions[i].position)

ContestRunning(e) == events[e].status = "active" /\ events[e].endsAt > now

\* C11: in a running contest with activityType = reactions a comment or
\* reply call, and with activityType = comments a reaction call, returns 0
\* at once without an error and leaves every stats record and the contest's
\* counters as they were.
C11_ExcludedKindIsNoOp ==
  [][\A c \in ActCallers, u \in Scorers, e \in Events :
       /\ (ContestRunning(e) /\ events[e].activityType = "reactions"
             /\ \E r \in BOOLEAN : handleComment(c, u, e, r))
            => (actRet'[c] = "zero" /\ actPc'[c] = "idle"
                  /\ stats' = stats /\ events' = events)
       /\ (ContestRunning(e) /\ events[e].activityType = "comments"
             /\ handleReaction(c, u, e))
            => (actRet'[c] = "zero" /\ actPc'[c] = "idle"
                  /\ stats' = stats /\ events' = events)]_vars

\* in a contest that counts one kind only, one call has scored and another,
\* of the excluded kind, has returned 0
C11_Witness ==
  /\ events["e1"].activityType \in {"reactions", "comments"}
  /\ \E c, d \in ActCallers :
       /\ actRet[c] = "zero" /\ actPc[c] = "idle"
       /\ actRet[d] = "points" /\ actPc[d] = "idle"
  /\ events["e1"].totalReactions + events["e1"].totalComments = 1

\* the award the claim lists for an action kind under a boost type
ListedAward(kind, boostType) ==
  IF kind = "reaction" THEN (IF boostType = "none" THEN 1 ELSE 2)
  ELSE IF kind = "comment"
  THEN (IF boostType = "none" THEN 3 ELSE IF boostType = "x2_24h" THEN 6 ELSE 5)
  ELSE (IF boostType = "none" THEN 2 ELSE IF boostType = "x2_24h" THEN 4 ELSE 3)

\* the boost type a scoring call scores under: that of the boost its lookup
\* returned, unless there was none or it is found past its expiry
ScoringBoostType(c) ==
  LET i == actLoc[c].boostIdx
  IN IF i = 0 THEN "none"
     ELSE IF boosts[i].expiresAt # NoDate /\ boosts[i].expiresAt < now THEN "none"
     ELSE boosts[i].type

\* the participant's record is as the call loaded it: no other call has
\* written it since
RecordAsLoaded(c) ==
  LET db == stats[actLoc[c].userId][actLoc[c].eventId]
  IN IF actLoc[c].isNew THEN ~db.exists ELSE db = actLoc[c].doc

StatusRank(st) ==
  IF st = "draft" THEN 0
  ELSE IF st = "pending_payment" THEN 1
  ELSE IF st = "active" THEN 2
  ELSE IF st = "completing" THEN 3 ELSE 4

\* C13: a contest's status only moves forward along draft -> pending_payment
\* -> active -> completing -> completed, or from active to cancelled; a
\* completed or cancelled contest keeps its status, its startsAt and its
\* endsAt under every operation.
C13_StatusMovesForward ==
  [][\A e \in Events :
       /\ StatusRank(events'[e].status) >= StatusRank(events[e].status)
       /\ events[e].status \in {"completed", "cancelled"} =>
            /\ events'[e].status = events[e].status
            /\ events'[e].startsAt = events[e].startsAt
            /\ events'[e].endsAt = events[e].endsAt]_vars

\* C14: every contest the scheduler completes passes through status
\* completing before it reaches completed: a contest becomes completed only
\* from completing, and the scheduler makes no other status change than
\* active -> completing and completing -> completed.
C14_CompletedOnlyViaCompleting ==
  [][\A e \in Events :
       events'[e].status # events[e].status =>
         \/ events[e].status = "active" /\ events'[e].status = "completing"
         \/ events[e].status = "completing" /\ events'[e].status = "completed"]_vars

\* C15: an expired active contest without participants is completed by the
\* scheduler with an empty winners list: no prize is sent for it and no
\* distribution record is created.
C15_NoParticipantsNoPrizes ==
  \A e \in Events :
    ((\A u \in Users : ~stats[u][e].exists) /\ completions[e] # <<>>) =>
      /\ events[e].status = "completed"
      /\ events[e].winners = <<>>
      /\ sendLog[e] = <<>>
      /\ \A i \in 1..Len(distributions) : distributions[i].eventId # e

\* the tick has completed expired contest e2, which nobody took part in
C15_Witness ==
  /\ \A u \in Users : ~stats[u]["e2"].exists
  /\ events["e2"].endsAt < now
  /\ completions["e2"] = <<[by |-> "tick", tick |-> ticks]>>
  /\ events["e2"].status = "completed"
  /\ SchedQuiet

\* the contests named in a sequence
Range(q) == {q[i] : i \in 1..Len(q)}

\* C16: when a scheduler run ends, completeEvent has been called for every
\* contest the run selected, whichever of them threw: an exception in one
\* completion is caught there, the run goes on with the next contest, and
\* no exception leaves the run.
C16_TickGoesOnAfterException ==
  [][\A p \in TickProcs :
       /\ (schPc[p] # "idle" /\ schPc'[p] = "idle") =>
            /\ Range(schLoc[p].attempted) = Range(schLoc[p].selected)
            /\ Len(schLoc[p].queue) = 1
       /\ (schPc[p] # "idle" /\ schPc'[p] # "idle") =>
            /\ schLoc'[p].selected = schLoc[p].selected
            /\ Range(schLoc'[p].attempted) \cup Range(Tail(schLoc'[p].queue))
                 = Range(schLoc[p].selected)]_vars

\* the tick selected two contests, the completion of the first threw, and
\* completeEvent has been called for the second
C16_Witness ==
  /\ schPc["tick"] # "idle"
  /\ Len(schLoc["tick"].selected) = 2
  /\ schLoc["tick"].thrown = <<schLoc["tick"].selected[1]>>
  /\ schLoc["tick"].attempted = schLoc["tick"].selected

\* C17: the second-chance draw takes effect once per completed contest: one
\* timer is set for it after its completion, and at most one run of
\* runSecondChanceDraw appends winners; a run on a contest that already has
\* second-chance winners appends none.
C17_SecondChanceOnce ==
  \A e \in Events :
    /\ scLog[e].timersSet <= 1
    /\ Len(scLog[e].draws) <= 1

\* C18: after any sequence of start() and stop() calls at most one timer of
\* each periodic function is active, and once stop() has returned no timer is
\* active.
C18_OneTimerEachNoneAfterStop ==
  /\ \A fn \in TimerFns : Cardinality({t \in timers : t.fn = fn}) <= 1
  /\ lastCall = "stop" => timers = {}

\* C19: a scoring call that reads the boost of a participant whose boost carries
\* an expiresAt that is already past sets that boost's isActive to false and
\* scores with multiplier 1.0: once the read is over, no boost of the
\* participant that was past its expiry is still active.
C19_ExpiredBoostDeactivatedOnRead ==
  [][\A c \in ActCallers :
       (actPc[c] = "boost_checked" /\ actPc'[c] = "stats_save")
       => \A i \in 1..Len(boosts) :
            (/\ boosts[i].userId = actLoc[c].userId
             /\ boosts[i].eventId = actLoc[c].eventId
             /\ boosts[i].isActive
             /\ boosts[i].expiresAt # NoDate
             /\ boosts[i].expiresAt < now)
            => /\ ~boosts'[i].isActive
               /\ actLoc'[c].multiplier = MULT_NONE]_vars

\* C20: under any interleaving of releaseGift and markAsUsed calls on a pool
\* entry, reserved and used never become negative; a call that ends with an
\* error leaves the entry as it was, and a step of markAsUsed that changes the
\* entry moves the same quantity out of reserved and into used at once.
C20_ReleaseAndUseNeverNegative ==
  [][/\ \A g \in GiftIds : giftPool'[g].reserved >= 0 /\ giftPool'[g].used >= 0
     /\ \A c \in PoolCallers :
          /\ \A g \in GiftIds, q \in Quantities :
               ((releaseGift(c, g, q) \/ markAsUsed(c, g, q))
                /\ giftPool[g].reserved < q)
               => (poolRet'[c] = "error" /\ giftPool' = giftPool)
          /\ (poolPc[c] = "markAsUsed_update" /\ poolPc'[c] = "idle"
              /\ giftPool' # giftPool)
             => LET g == poolArg[c].giftId
                    q == poolArg[c].quantity
                IN giftPool' = [giftPool EXCEPT ![g].reserved = @ - q,
                                                ![g].used = @ + q]]_vars

\* C21: for each (contest, winner, position) the external send succeeds at
\* most once over any sequence of sendPrize and retryFailedPrize calls: once a
\* send for the key has succeeded, no later call invokes the sender for it.
C21_SendSucceedsAtMostOnce ==
  \A k \in PrizeKeys : przSends.byKey[k].ok <= 1

\* C22: while every send for a (contest, winner, position) fails, the sender
\* is invoked at most 3 times for it in total, and each failed attempt leaves
\* its record stored as failed, with the error and with attempts one higher
\* than before the attempt.
C22_ThreeFailedSendsAtMost ==
  [][/\ \A k \in PrizeKeys :
          przSends'.byKey[k].ok = 0 => przSends'.byKey[k].failed <= MaxAttempts
     /\ \A c \in PrizeCallers :
          (/\ przPc[c] = "distribution_save"
           /\ przPc'[c] = "idle"
           /\ przLoc[c].doc.status = "failed")
          => \E i \in 1..Len(distributions') :
               /\ distributions'[i].eventId = przLoc[c].doc.eventId
               /\ distributions'[i].winnerId = przLoc[c].doc.winnerId
               /\ distributions'[i].position = przLoc[c].doc.position
               /\ distributions'[i].status = "failed"
               /\ distributions'[i].error # "none"
               /\ distributions'[i].attempts = przLoc[c].doc.attempts]_vars

\* participant u ranks strictly above participant v in contest e: more
\* points, or the same points and an earlier last activity
RanksAbove(e, u, v) ==
  \/ stats[u][e].points > stats[v][e].points
  \/ /\ stats[u][e].points = stats[v][e].points
     /\ stats[u][e].lastActivityAt < stats[v][e].lastActivityAt

C24_PoolSendOutcome ==
  [][\A c \in PrizeCallers :
       LET d == przLoc[c].doc
           g == przLoc[c].giftId
           Stored(status) ==
             \E i \in 1..Len(distributions') :
               /\ distributions'[i].eventId = d.eventId
               /\ distributions'[i].winnerId = d.winnerId
               /\ distributions'[i].position = d.position
               /\ distributions'[i].status = status
               /\ (status = "sent") =>
                    (distributions'[i].sentAt # NoDate /\ distributions'[i].error = "none")
               /\ (status = "failed") => distributions'[i].error # "none"
       IN /\ (przPc[c] = "distribution_save" /\ przPc'[c] = "idle"
               /\ przLoc[c].source = "pool")
             => IF przLoc[c].sent THEN Stored("sent") ELSE Stored("failed")
          /\ (przPc[c] = "sendGift_pool" /\ przPc'[c] # "sendGift_pool")
             => giftPool' = giftPool
          /\ (przPc[c] \in {"markAsUsed", "markAsUsed_update"}
               /\ przPc'[c] = "distribution_save")
             => giftPool' = [giftPool EXCEPT ![g].used = @ + 1, ![g].reserved = @ - 1]]_vars

\* C28: for each pooled gift, the gifts successfully sent by the pool branch
\* of sendTelegramGift never outnumber the entry's totalAvailable, and each
\* such send lowers checkAvailability by one: once no call is in flight, the
\* availability is what it was at the start less the pool sends made.
C28_PoolSendsWithinTotal ==
  \A g \in GiftIds :
    giftPool[g].exists =>
      /\ przSends.fromPool[g] <= giftPool[g].totalAvailable
      /\ (\A c \in PrizeCallers : przPc[c] = "idle") =>
           checkAvailability(g) =
             (poolStart[g].totalAvailable - poolStart[g].reserved - poolStart[g].used)
             - przSends.fromPool[g]

\* C27: once the scheduler has finished sending the gifts of a completed
\* contest and stored the result, giftSent of every winner is true exactly
\* when the send to that winner succeeded.
C27_GiftSentMatchesSend ==
  \A e \in Events :
    (/\ events[e].status = "completed"
     /\ Len(completions[e]) = 1
     /\ events[e].winners # <<>>
     /\ Len(sendLog[e]) = Len(events[e].winners)
     /\ \A p \in SchedProcs : schPc[p] # "idle" => Head(schLoc[p].queue) # e)
    => \A i \in 1..Len(events[e].winners) :
         /\ sendLog[e][i].telegramId = events[e].winners[i].telegramId
         /\ events[e].winners[i].giftSent = sendLog[e][i].sent

\* C29: once the x2_24h boost of a participant in a contest is past its
\* expiresAt (and the participant has no other unexpired boost there), a new
\* applyBoost call for the same participant and contest is accepted instead
\* of failing with 'already has an active boost'.
C29_BoostAfterExpiryAccepted ==
  [][\A c \in ActCallers, u \in Scorers, e \in Events, b \in BoostTypes :
       (/\ applyBoost(c, u, e, b)
        /\ \E i \in 1..Len(boosts) :
             /\ boosts[i].userId = u /\ boosts[i].eventId = e
             /\ boosts[i].type = "x2_24h"
             /\ boosts[i].expiresAt # NoDate /\ boosts[i].expiresAt < now
        /\ ~HasUnexpiredBoost(u, e))
       => /\ actRet'[c] # "BoostAlreadyActive"
          /\ actPc'[c] = "boost_save"]_vars

\* C26: when two completions of one contest overlap (a scheduler tick and a
\* manual completion that both found it active), the later one does nothing:
\* the completion is persisted by one run only and every winner is sent a
\* prize by one run only.
C26_OverlapCompletesOnce ==
  \A e \in Events :
    /\ \A i, j \in 1..Len(completions[e]) : completions[e][i].by = completions[e][j].by
    /\ \A i, j \in 1..Len(sendLog[e]) :
         sendLog[e][i].telegramId = sendLog[e][j].telegramId => i = j

C25_CompletedWinnersEventuallyServed ==
  \A e \in Events : \A i \in 1..MaxWinners :
    (/\ events[e].status = "completed"
     /\ i <= Len(events[e].winners)
     /\ ticks < MaxTicks
     /\ \A j \in 1..Len(sendLog[e]) : sendLog[e][j].position # i)
    ~> (\E j \in 1..Len(sendLog[e]) : sendLog[e][j].position = i)

====
